---- MODULE Spec2Model ----
(***************************************************************************)
(* Web-Buddy automation learning: the AutomationManager decision engine,   *)
(* its preference cache and execution tracker, and the two AutomationStorage*)
(* backends (IndexedDBAutomationStorage, MemoryAutomationStorage).         *)
(*                                                                         *)
(* Conventions.  A JavaScript number that holds a fraction (a confidence)  *)
(* is an IEEE 754 double, written [h, e]: the number h/100 + e/(100*2^57). *)
(* A decimal literal of the code is named by its hundredths (0.8 is 80)    *)
(* and becomes the double nearest to it.  A JavaScript string that the     *)
(* code only compares is a TLA+ string, "" standing for an absent (falsy)  *)
(* one; a string the code matches against a regular expression is a        *)
(* sequence of characters.  A Date is a number of minutes, NoDate an absent *)
(* one.  An array is a sequence.                                           *)
(***************************************************************************)
EXTENDS Integers, Sequences, FiniteSets, TLC

VARIABLES
    backend,          \* which AutomationStorage the manager was constructed with
    db,               \* IndexedDB object store 'automations', in key (id) order
    automations,      \* MemoryAutomationStorage.automations, a Map in insertion order
    userPreferences,  \* AutomationManager.userPreferences: key -> [until, preference]
    clock,            \* Date.now(), in minutes
    calls,            \* executeAutomation calls in flight: slot -> frame
    ret,              \* the last completed call and what it returned
    usage,            \* history: per stored id, the confidence and useCount it was
                      \* written with and the updateUsage calls completed since
    extension         \* WebBuddyExtension: websocket, reconnectAttempts, the sockets
                      \* it constructed, its pending reconnect timeouts

vars == <<backend, db, automations, userPreferences, clock, calls, ret, usage, extension>>

----------------------------------------------------------------------------
(* Bounds of the model *)

MaxIds == 2
MaxUse == 2
MaxClock == 1
MaxPrefs == 1
MaxCalls == 1
MaxAttempts == 3
MaxSockets == 4
MaxReconnects == 2

(* Program constants; the decimal literals in hundredths *)

MinConfidence == 50
InitialConfidence == 80
ConfidenceStep == 5
FullConfidence == 100
TieBand == 10
DefaultHours == 24
MinutesPerHour == 60
DefaultRetryAttempts == 3
DefaultMaxReconnectAttempts == 5

Ids == 1..MaxIds
NoDate == -1

----------------------------------------------------------------------------
(* JavaScript helpers *)

Truthy(s) == s /= ""

Includes(seq, x) == \E i \in 1..Len(seq) : seq[i] = x

StoredIds(store) == {store[i].id : i \in 1..Len(store)}

IndexOfId(store, id) == CHOOSE i \in 1..Len(store) : store[i].id = id

(* String(undefined) *)
StrUndefined == <<"u", "n", "d", "e", "f", "i", "n", "e", "d">>

(* pattern.includes('*') *)
HasStar(pattern) == Includes(pattern, "*")

(* A regular expression built by pattern.replace(/\*/g, '.*') matches at        *)
(* position 1 of s: literal characters one by one, '.*' any run of characters. *)
RECURSIVE MatchesHere(_, _)
MatchesHere(pattern, s) ==
    IF pattern = <<>> THEN TRUE
    ELSE IF Head(pattern) = "*"
         THEN \E k \in 0..Len(s) : MatchesHere(Tail(pattern), SubSeq(s, k + 1, Len(s)))
         ELSE /\ s /= <<>>
              /\ Head(s) = Head(pattern)
              /\ MatchesHere(Tail(pattern), Tail(s))

(* regex.test(s): the expression carries no anchors, so it may match anywhere *)
RegexTest(pattern, s) ==
    \E k \in 0..Len(s) : MatchesHere(pattern, SubSeq(s, k + 1, Len(s)))

(* String(context[key]) *)
ContextString(context, key) ==
    IF key \in DOMAIN context THEN context[key] ELSE StrUndefined

(* getById's null *)
Null == [id |-> 0]

----------------------------------------------------------------------------
(* JavaScript numbers: IEEE 754 doubles, round to nearest, ties to even.  The   *)
(* double [h, e] is the number (h * 2^57 + e) / (100 * 2^57); e stays far under *)
(* 2^57, so that h decides an order before e does.  The doubles of the model    *)
(* are 0 and those of magnitude from 2^-5 to 4: all are multiples of 2^-57.     *)

(* 2^57 modulo m, for m up to 2^15: 2^57 is the cube of 2^19 *)
TwoTo57Mod(m) ==
    LET a == (2^19) % m
    IN  (((a * a) % m) * a) % m

(* the spacing of the doubles about the positive number [H, E], in units of    *)
(* 2^-57; 0 under 2^-5, where every multiple of 2^-57 is a double              *)
Ulp(H, E) ==
    IF H > 200 \/ (H = 200 /\ E >= 0) THEN 64
    ELSE IF H > 100 \/ (H = 100 /\ E >= 0) THEN 32
    ELSE IF H > 50 \/ (H = 50 /\ E >= 0) THEN 16
    ELSE IF H > 25 \/ (H = 25 /\ E >= 0) THEN 8
    ELSE IF H >= 13 THEN 4
    ELSE IF H >= 7 THEN 2
    ELSE IF H >= 4 THEN 1
    ELSE 0

(* the number [H, E] modulo the spacing m / 100 *)
Remainder(H, E, m) == (H * TwoTo57Mod(m) + E) % m

(* the multiple of m / 100 nearest to [H, E] that lies r / 100 above one: the   *)
(* nearer neighbour, and of two equally near the even multiple                  *)
Nearest(H, E, m, r, odd) ==
    IF 2 * r < m \/ (2 * r = m /\ ~odd)
    THEN [h |-> H, e |-> E - r]
    ELSE [h |-> H, e |-> E + (m - r)]

RoundPositive(H, E) ==
    IF Ulp(H, E) = 0 THEN [h |-> H, e |-> E]
    ELSE Nearest(H, E, 100 * Ulp(H, E), Remainder(H, E, 100 * Ulp(H, E)),
                 Remainder(H, E, 200 * Ulp(H, E)) >= 100 * Ulp(H, E))

DoubleNegate(x) == [h |-> -x.h, e |-> -x.e]

(* the double nearest to the number (H * 2^57 + E) / (100 * 2^57) *)
Round(H, E) ==
    IF H < 0 \/ (H = 0 /\ E < 0)
    THEN DoubleNegate(RoundPositive(-H, -E))
    ELSE RoundPositive(H, E)

(* a decimal literal of the code, given in hundredths *)
Double(hundredths) == Round(hundredths, 0)

DoubleAdd(a, b) == Round(a.h + b.h, a.e + b.e)

DoubleSubtract(a, b) == Round(a.h - b.h, a.e - b.e)

DoubleLess(a, b) == a.h < b.h \/ (a.h = b.h /\ a.e < b.e)

Zero == [h |-> 0, e |-> 0]

(* Math.abs *)
MathAbs(x) == IF DoubleLess(x, Zero) THEN DoubleNegate(x) ELSE x

(* Math.min *)
MathMin(a, b) == IF DoubleLess(b, a) THEN b ELSE a

(* the sign of a double: what Array.prototype.sort reads of a comparator's value *)
Sign(x) == IF DoubleLess(x, Zero) THEN -1 ELSE IF DoubleLess(Zero, x) THEN 1 ELSE 0

(* an optional number: minConfidence?: number *)
NoNumber == [present |-> FALSE, value |-> Zero]

Number(hundredths) == [present |-> TRUE, value |-> Double(hundredths)]

----------------------------------------------------------------------------
(* Array.prototype.sort as the engine of the extension's browser runs it on an *)
(* array shorter than 64 elements: the leading run is found (and reversed when  *)
(* strictly descending), and the other elements are placed by binary insertion. *)
(* The comparator is named by the backend that passes it.                      *)

(* the comparator of IndexedDBAutomationStorage.findMatching *)
IdbCompare(a, b) ==
    LET confidenceDiff == DoubleSubtract(b.metadata.confidence, a.metadata.confidence)
    IN  IF DoubleLess(Double(TieBand), MathAbs(confidenceDiff))
        THEN Sign(confidenceDiff)
        ELSE b.metadata.useCount - a.metadata.useCount

(* the comparator of MemoryAutomationStorage.findMatching *)
MemCompare(a, b) ==
    Sign(DoubleSubtract(b.metadata.confidence, a.metadata.confidence))

Compare(kind, a, b) ==
    IF kind = "indexeddb" THEN IdbCompare(a, b) ELSE MemCompare(a, b)

RECURSIVE RunEnd(_, _, _, _)
RunEnd(kind, arr, isDescending, idx) ==
    IF idx > Len(arr) THEN idx - 1
    ELSE LET order == Compare(kind, arr[idx], arr[idx - 1])
         IN  IF isDescending
             THEN IF order >= 0 THEN idx - 1 ELSE RunEnd(kind, arr, isDescending, idx + 1)
             ELSE IF order < 0 THEN idx - 1 ELSE RunEnd(kind, arr, isDescending, idx + 1)

Reverse(seq) == [i \in 1..Len(seq) |-> seq[Len(seq) + 1 - i]]

RECURSIVE InsertionPoint(_, _, _, _, _)
InsertionPoint(kind, arr, pivot, left, right) ==
    IF left >= right THEN left
    ELSE LET mid == left + ((right - left) \div 2)
         IN  IF Compare(kind, pivot, arr[mid]) < 0
             THEN InsertionPoint(kind, arr, pivot, left, mid)
             ELSE InsertionPoint(kind, arr, pivot, mid + 1, right)

RECURSIVE BinaryInsertionSort(_, _, _)
BinaryInsertionSort(kind, arr, start) ==
    IF start > Len(arr) THEN arr
    ELSE LET pivot == arr[start]
             left == InsertionPoint(kind, arr, pivot, 1, start)
             moved == SubSeq(arr, 1, left - 1) \o <<pivot>>
                      \o SubSeq(arr, left, start - 1)
                      \o SubSeq(arr, start + 1, Len(arr))
         IN  BinaryInsertionSort(kind, moved, start + 1)

ArraySort(kind, arr) ==
    IF Len(arr) < 2 THEN arr
    ELSE LET isDescending == Compare(kind, arr[2], arr[1]) < 0
             runLength == RunEnd(kind, arr, isDescending, 3)
             run == SubSeq(arr, 1, runLength)
             made == (IF isDescending THEN Reverse(run) ELSE run)
                     \o SubSeq(arr, runLength + 1, Len(arr))
         IN  BinaryInsertionSort(kind, made, runLength + 1)

----------------------------------------------------------------------------
(* IndexedDBAutomationStorage: every request runs in its own transaction on a  *)
(* structured clone; the object store is kept in key order.                   *)

(* store.put(automation) *)
IdbPut(store, automation) ==
    LET others == SelectSeq(store, LAMBDA a : a.id /= automation.id)
        before == SelectSeq(others, LAMBDA a : a.id < automation.id)
        after == SelectSeq(others, LAMBDA a : a.id > automation.id)
    IN  before \o <<automation>> \o after

(* an index path that restricts by criteria.eventType beside the key chosen *)
IdbIndexPathAndEventType(store, criteria) ==
    SelectSeq(store, LAMBDA a :
        /\ ~(Truthy(criteria.action) /\ a.action /= criteria.action)
        /\ ~(Truthy(criteria.website) /\ a.website /= criteria.website)
        /\ ~(Truthy(criteria.eventType) /\ a.eventType /= criteria.eventType))

(* the index chosen by findMatching, and getAll on it *)
IdbIndexPath(store, criteria) ==
    IF Truthy(criteria.action) /\ Truthy(criteria.website)
    THEN SelectSeq(store, LAMBDA a : a.action = criteria.action
                                      /\ a.website = criteria.website)
    ELSE IF Truthy(criteria.action)
    THEN SelectSeq(store, LAMBDA a : a.action = criteria.action)
    ELSE IF Truthy(criteria.website)
    THEN SelectSeq(store, LAMBDA a : a.website = criteria.website)
    ELSE IF Truthy(criteria.eventType)
    THEN SelectSeq(store, LAMBDA a : a.eventType = criteria.eventType)
    ELSE store

matchesContext(automation, context) ==
    LET cp == automation.matching.contextPatterns
    IN  IF ~cp.present THEN TRUE
        ELSE \A key \in DOMAIN cp.patterns :
                LET pattern == cp.patterns[key]
                IN  IF HasStar(pattern)
                    THEN RegexTest(pattern, ContextString(context, key))
                    ELSE key \in DOMAIN context /\ context[key] = pattern

HasAllParams(automation, criteria) ==
    \A i \in 1..Len(criteria.parameters) :
        Includes(automation.parameters, criteria.parameters[i])

IdbFindMatching(store, criteria) ==
    LET indexed == IdbIndexPath(store, criteria)
        byParams == SelectSeq(indexed, LAMBDA a : HasAllParams(a, criteria))
        byConfidence ==
            IF criteria.minConfidence.present
            THEN SelectSeq(byParams,
                           LAMBDA a : ~DoubleLess(a.metadata.confidence,
                                                  criteria.minConfidence.value))
            ELSE byParams
        byContext ==
            IF criteria.context.present
            THEN SelectSeq(byConfidence,
                           LAMBDA a : matchesContext(a, criteria.context.values))
            ELSE byConfidence
    IN  ArraySort("indexeddb", byContext)

IdbGetById(store, id) ==
    IF id \in StoredIds(store) THEN store[IndexOfId(store, id)] ELSE Null

(* Used without the saturation at 1.0 *)
UsedUnbounded(automation, now) ==
    [automation EXCEPT
        !.metadata.lastUsed = now,
        !.metadata.useCount = @ + 1,
        !.metadata.confidence = DoubleAdd(@, Double(ConfidenceStep))]

(* Used with the cap applied before the step is added *)
UsedCapsFirst(automation, now) ==
    [automation EXCEPT
        !.metadata.lastUsed = now,
        !.metadata.useCount = @ + 1,
        !.metadata.confidence =
            DoubleAdd(MathMin(Double(FullConfidence), @), Double(ConfidenceStep))]

(* what updateUsage writes back from the copy it read *)
Used(automation, now) ==
    [automation EXCEPT
        !.metadata.lastUsed = now,
        !.metadata.useCount = @ + 1,
        !.metadata.confidence =
            MathMin(Double(FullConfidence), DoubleAdd(@, Double(ConfidenceStep)))]

IdbDelete(store, id) == SelectSeq(store, LAMBDA a : a.id /= id)

RECURSIVE IdbPutAll(_, _)
IdbPutAll(store, list) ==
    IF list = <<>> THEN store
    ELSE IdbPutAll(IdbPut(store, Head(list)), Tail(list))

----------------------------------------------------------------------------
(* MemoryAutomationStorage: a Map, iterated in insertion order; set() on a key *)
(* that is present keeps the key's position.                                  *)

(* set() adding an entry whatever the Map holds *)
MemSetAppends(map, automation) == Append(map, automation)

MemSet(map, automation) ==
    IF automation.id \in StoredIds(map)
    THEN [map EXCEPT ![IndexOfId(map, automation.id)] = automation]
    ELSE Append(map, automation)

MemPasses(automation, criteria) ==
    /\ ~(Truthy(criteria.eventType) /\ automation.eventType /= criteria.eventType)
    /\ ~(Truthy(criteria.action) /\ automation.action /= criteria.action)
    /\ ~(Truthy(criteria.website) /\ automation.website /= criteria.website)
    /\ ~(criteria.minConfidence.present
          /\ DoubleLess(automation.metadata.confidence, criteria.minConfidence.value))
    /\ HasAllParams(automation, criteria)

MemFindMatching(map, criteria) ==
    ArraySort("memory", SelectSeq(map, LAMBDA a : MemPasses(a, criteria)))

MemGetById(map, id) ==
    IF id \in StoredIds(map) THEN map[IndexOfId(map, id)] ELSE Null

(* updateUsage leaving the Map as it is *)
MemUpdateUsageSkipped(map, id, now) == map

MemUpdateUsage(map, id, now) ==
    IF id \in StoredIds(map)
    THEN [map EXCEPT ![IndexOfId(map, id)] = Used(@, now)]
    ELSE map

MemDelete(map, id) == SelectSeq(map, LAMBDA a : a.id /= id)

(* importAutomations walking the list from its end *)
RECURSIVE MemSetAllLastFirst(_, _)
MemSetAllLastFirst(map, list) ==
    IF list = <<>> THEN map
    ELSE MemSetAllLastFirst(MemSet(map, list[Len(list)]), SubSeq(list, 1, Len(list) - 1))

RECURSIVE MemSetAll(_, _)
MemSetAll(map, list) ==
    IF list = <<>> THEN map
    ELSE MemSetAll(MemSet(map, Head(list)), Tail(list))

----------------------------------------------------------------------------
(* One complete call of the AutomationStorage interface on each backend, the   *)
(* database requests succeeding: the store it leaves, whether the promise     *)
(* rejects, and the value or the error message it settles with.               *)

NotFound(id) == <<"Automation ", id, " not found">>

Outcome(store, threw, result) ==
    [store |-> store, threw |-> threw, result |-> result]

IdbCall(store, c, now) ==
    CASE c.op = "save" -> Outcome(IdbPut(store, c.automation), FALSE, <<>>)
      [] c.op = "findMatching" ->
            Outcome(store, FALSE, IdbFindMatching(store, c.criteria))
      [] c.op = "getById" -> Outcome(store, FALSE, IdbGetById(store, c.id))
      [] c.op = "updateUsage" ->
            IF IdbGetById(store, c.id) = Null
            THEN Outcome(store, TRUE, NotFound(c.id))
            ELSE Outcome(IdbPut(store, Used(IdbGetById(store, c.id), now)), FALSE, <<>>)
      [] c.op = "deleteById" -> Outcome(IdbDelete(store, c.id), FALSE, <<>>)
      [] c.op = "exportAll" -> Outcome(store, FALSE, store)
      [] c.op = "importAutomations" ->
            Outcome(IdbPutAll(store, c.automations), FALSE, <<>>)
      [] c.op = "clear" -> Outcome(<<>>, FALSE, <<>>)

(* a Map backend whose getById counts a use of the record it returns *)
MemCallGetCounts(map, c, now) ==
    CASE c.op = "save" -> Outcome(MemSet(map, c.automation), FALSE, <<>>)
      [] c.op = "findMatching" ->
            Outcome(map, FALSE, MemFindMatching(map, c.criteria))
      [] c.op = "getById" ->
            Outcome(MemUpdateUsage(map, c.id, now), FALSE, MemGetById(map, c.id))
      [] c.op = "updateUsage" -> Outcome(MemUpdateUsage(map, c.id, now), FALSE, <<>>)
      [] c.op = "deleteById" -> Outcome(MemDelete(map, c.id), FALSE, <<>>)
      [] c.op = "exportAll" -> Outcome(map, FALSE, map)
      [] c.op = "importAutomations" ->
            Outcome(MemSetAll(map, c.automations), FALSE, <<>>)
      [] c.op = "clear" -> Outcome(<<>>, FALSE, <<>>)

MemCall(map, c, now) ==
    CASE c.op = "save" -> Outcome(MemSet(map, c.automation), FALSE, <<>>)
      [] c.op = "findMatching" ->
            Outcome(map, FALSE, MemFindMatching(map, c.criteria))
      [] c.op = "getById" -> Outcome(map, FALSE, MemGetById(map, c.id))
      [] c.op = "updateUsage" -> Outcome(MemUpdateUsage(map, c.id, now), FALSE, <<>>)
      [] c.op = "deleteById" -> Outcome(MemDelete(map, c.id), FALSE, <<>>)
      [] c.op = "exportAll" -> Outcome(map, FALSE, map)
      [] c.op = "importAutomations" ->
            Outcome(MemSetAll(map, c.automations), FALSE, <<>>)
      [] c.op = "clear" -> Outcome(<<>>, FALSE, <<>>)

(* the message a failed database request of the call rejects with *)
RequestErrors(c) ==
    CASE c.op = "save" -> {"Failed to save automation"}
      [] c.op = "findMatching" -> {"Failed to search automations"}
      [] c.op = "getById" -> {"Failed to get automation"}
      [] c.op = "updateUsage" -> {"Failed to get automation", "Failed to save automation"}
      [] c.op = "deleteById" -> {"Failed to delete automation"}
      [] c.op = "exportAll" -> {"Failed to export automations"}
      [] c.op = "importAutomations" -> {"Failed to import automation"}
      [] c.op = "clear" -> {"Failed to clear automations"}

----------------------------------------------------------------------------
(* The storage the manager was constructed with (createAutomationStorage).    *)
(* An IndexedDB request may end in onerror; the Map never fails.              *)

Backends == {"indexeddb", "memory"}

Store == IF backend = "indexeddb" THEN db ELSE automations

Ends(ok) == ok \/ backend = "indexeddb"

StorageFindMatching(criteria) ==
    IF backend = "indexeddb"
    THEN IdbFindMatching(db, criteria)
    ELSE MemFindMatching(automations, criteria)

StorageGetById(id) ==
    IF backend = "indexeddb" THEN IdbGetById(db, id) ELSE MemGetById(automations, id)

Without(f, key) == [k \in DOMAIN f \ {key} |-> f[k]]

(* Map.set keeping the value of a key that is present *)
WithFirstKept(f, key, value) ==
    [k \in DOMAIN f \cup {key} |-> IF k \in DOMAIN f THEN f[k] ELSE value]

With(f, key, value) ==
    [k \in DOMAIN f \cup {key} |-> IF k = key THEN value ELSE f[k]]

Baseline(automation) ==
    [c0 |-> automation.metadata.confidence, u0 |-> automation.metadata.useCount,
     n |-> 0]

(* storage.save(automation), the request succeeding *)
Saved(automation) ==
    /\ db' = IF backend = "indexeddb" THEN IdbPut(db, automation) ELSE db
    /\ automations' = IF backend = "memory" THEN MemSet(automations, automation)
                      ELSE automations
    /\ usage' = With(usage, automation.id, Baseline(automation))

----------------------------------------------------------------------------
(* AutomationManager: pure helpers *)

(* createSearchCriteria without the relevance floor *)
createSearchCriteriaNoFloor(event) ==
    [eventType |-> event.type,
     action |-> event.payload.action,
     website |-> event.website,
     parameters |-> event.payload.parameters,
     context |-> event.payload.context,
     minConfidence |-> NoNumber]

createSearchCriteria(event) ==
    [eventType |-> event.type,
     action |-> event.payload.action,
     website |-> event.website,
     parameters |-> event.payload.parameters,
     context |-> event.payload.context,
     minConfidence |-> Number(MinConfidence)]

(* a string as the sequence of its parts around each ':' it contains, so that *)
(* joining strings is the concatenation of their parts                        *)
Pieces(string) ==
    CASE string = "form:submit" -> <<"form", ":", "submit">>
      [] string = "submit:example.com" -> <<"submit", ":", "example.com">>
      [] OTHER -> <<string>>

(* `${action}:${website || 'any'}` *)
getPreferenceKey(action, website) ==
    Pieces(action) \o <<":">> \o Pieces(IF Truthy(website) THEN website ELSE "any")

(* getUserPreference dropping the entry at the minute it expires *)
PreferenceHeldBefore(key) ==
    key \in DOMAIN userPreferences /\ userPreferences[key].until > clock

(* getUserPreference: the entry is kept only while until >= now *)
PreferenceHeld(key) ==
    key \in DOMAIN userPreferences /\ ~(userPreferences[key].until < clock)

RecordNew(message) ==
    [action |-> "record-new", automation |-> Null, message |-> <<message>>]

Execute(automation) ==
    [action |-> "execute", automation |-> automation,
     message |-> <<"Executing stored automation based on user preference">>]

ReusePrompt(automation, count) ==
    [action |-> "reuse-prompt", automation |-> automation,
     message |-> <<"Found ", count, " matching automation(s)">>]

(* Decide with the storage consulted before the preference *)
DecideMatchesFirst(held, preference, matches) ==
    IF Len(matches) > 0 /\ ~(held /\ preference = "reuse")
    THEN ReusePrompt(matches[1], Len(matches))
    ELSE IF Len(matches) > 0 THEN Execute(matches[1])
    ELSE RecordNew("No existing automation found for this action")

(* Decide with the prompt naming the last match and counting one *)
DecideLastMatch(held, preference, matches) ==
    IF held /\ preference = "skip" THEN RecordNew("User preference: skip automation")
    ELSE IF held /\ preference = "record-new"
    THEN RecordNew("User preference: always record new")
    ELSE IF Len(matches) = 0
    THEN RecordNew("No existing automation found for this action")
    ELSE IF held /\ preference = "reuse" THEN Execute(matches[1])
    ELSE ReusePrompt(matches[Len(matches)], 1)

(* Decide with the 'reuse' preference forgotten after the search *)
DecideAlwaysPrompt(held, preference, matches) ==
    IF held /\ preference = "skip" THEN RecordNew("User preference: skip automation")
    ELSE IF held /\ preference = "record-new"
    THEN RecordNew("User preference: always record new")
    ELSE IF Len(matches) = 0
    THEN RecordNew("No existing automation found for this action")
    ELSE ReusePrompt(matches[1], Len(matches))

(* Decide with the 'reuse' preference acted on before the matches are counted *)
DecideReuseFirst(held, preference, matches) ==
    IF held /\ preference = "skip" THEN RecordNew("User preference: skip automation")
    ELSE IF held /\ preference = "record-new"
    THEN RecordNew("User preference: always record new")
    ELSE IF held /\ preference = "reuse"
    THEN Execute(IF Len(matches) = 0 THEN Null ELSE matches[1])
    ELSE IF Len(matches) = 0
    THEN RecordNew("No existing automation found for this action")
    ELSE ReusePrompt(matches[1], Len(matches))

(* the decision of handleAutomationRequest from the preference read and the matches *)
Decide(held, preference, matches) ==
    IF held /\ preference = "skip" THEN RecordNew("User preference: skip automation")
    ELSE IF held /\ preference = "record-new"
    THEN RecordNew("User preference: always record new")
    ELSE IF Len(matches) = 0
    THEN RecordNew("No existing automation found for this action")
    ELSE IF held /\ preference = "reuse" THEN Execute(matches[1])
    ELSE ReusePrompt(matches[1], Len(matches))

(* handleAutomationRequest searching whatever the preference *)
SearchesAlways(held, preference) == TRUE

(* whether handleAutomationRequest reaches storage.findMatching *)
Searches(held, preference) == ~(held /\ preference \in {"skip", "record-new"})

(* every placeholder of the script, repeated ones too *)
extractEveryPlaceholder(templatedScript) == templatedScript

RECURSIVE extractParameters(_)
extractParameters(templatedScript) ==
    IF templatedScript = <<>> THEN <<>>
    ELSE LET front == extractParameters(SubSeq(templatedScript, 1, Len(templatedScript) - 1))
             name == templatedScript[Len(templatedScript)]
         IN  IF Includes(front, name) THEN front ELSE Append(front, name)

(* event.website || hostname of metadata.websiteUrl || 'unknown' *)
extractWebsite(event) ==
    IF Truthy(event.website) THEN event.website
    ELSE IF Truthy(event.payload.metadata.websiteHost)
    THEN event.payload.metadata.websiteHost
    ELSE "unknown"

(* a recording stored with a confidence under the relevance floor *)
NewAutomationUnconfident(id, event) ==
    [id |-> id,
     eventType |-> "automationRequested",
     action |-> event.payload.action,
     website |-> extractWebsite(event),
     parameters |-> extractParameters(event.payload.templatedScript),
     metadata |-> [lastUsed |-> NoDate, useCount |-> 0,
                   confidence |-> Double(MinConfidence - ConfidenceStep)],
     matching |-> [exactParameters |-> extractParameters(event.payload.templatedScript),
                   contextPatterns |-> event.payload.context]]

(* the StoredAutomation saveAutomation builds *)
NewAutomation(id, event) ==
    [id |-> id,
     eventType |-> "automationRequested",
     action |-> event.payload.action,
     website |-> extractWebsite(event),
     parameters |-> extractParameters(event.payload.templatedScript),
     metadata |-> [lastUsed |-> NoDate, useCount |-> 0,
                   confidence |-> Double(InitialConfidence)],
     matching |-> [exactParameters |-> extractParameters(event.payload.templatedScript),
                   contextPatterns |-> event.payload.context]]

(* until with every doNotAskFor value taken as minutes *)
PreferenceUntilMinutes(now, preference) ==
    IF preference.doNotAskFor.present
    THEN now + preference.doNotAskFor.value
    ELSE now + DefaultHours * MinutesPerHour

(* until, as setUserPreference computes it *)
PreferenceUntil(now, preference) ==
    IF preference.doNotAskFor.present
    THEN IF preference.doNotAskFor.type = "duration"
         THEN now + preference.doNotAskFor.value
         ELSE now + preference.doNotAskFor.value * MinutesPerHour
    ELSE now + DefaultHours * MinutesPerHour

NoCall == [call |-> "none"]

----------------------------------------------------------------------------
(* AutomationManager: operations *)

(* handleAutomationRequest catching the rejection of findMatching *)
Swallowed(event, failure) ==
    [call |-> "handleAutomationRequest", event |-> event, threw |-> FALSE,
     searched |-> TRUE, failure |-> <<failure>>,
     result |-> RecordNew("No existing automation found for this action")]

(* await storage.findMatching rejects with failure: nothing catches it, the    *)
(* promise of handleAutomationRequest rejects with it                          *)
Propagated(event, failure) ==
    [call |-> "handleAutomationRequest", event |-> event, threw |-> TRUE,
     searched |-> TRUE, failure |-> <<failure>>, error |-> <<failure>>]

handleAutomationRequest(event, ok) ==
    LET key == getPreferenceKey(event.payload.action, event.website)
        held == PreferenceHeld(key)
        preference == IF held THEN userPreferences[key].preference.action ELSE "none"
        matches == StorageFindMatching(createSearchCriteria(event))
    IN  /\ Ends(ok)
        /\ ok \/ Searches(held, preference)
        /\ userPreferences' = IF held THEN userPreferences
                              ELSE Without(userPreferences, key)
        /\ ret' = IF ok
                  THEN [call |-> "handleAutomationRequest", event |-> event,
                        threw |-> FALSE, searched |-> Searches(held, preference),
                        result |-> Decide(held, preference, matches)]
                  ELSE Propagated(event,
                                  CHOOSE failure \in RequestErrors([op |-> "findMatching"]) : TRUE)
        /\ UNCHANGED <<backend, extension, db, automations, clock, calls, usage>>

(* handleAutomationRequest in its two steps, other calls running between them:  *)
(* up to the await of storage.findMatching (criteria built, preference read,    *)
(* 'skip' and 'record-new' answered at once) ...                                *)
requestPreferenceChecked(slot, event) ==
    LET key == getPreferenceKey(event.payload.action, event.website)
        held == PreferenceHeld(key)
        preference == IF held THEN userPreferences[key].preference.action ELSE "none"
    IN  /\ slot \notin DOMAIN calls
        /\ userPreferences' = IF held THEN userPreferences
                              ELSE Without(userPreferences, key)
        /\ IF Searches(held, preference)
           THEN /\ calls' = With(calls, slot, [pc |-> "search", event |-> event,
                                               held |-> held, preference |-> preference])
                /\ ret' = NoCall
           ELSE /\ calls' = calls
                /\ ret' = [call |-> "handleAutomationRequest", event |-> event,
                           threw |-> FALSE, searched |-> FALSE,
                           result |-> Decide(held, preference, <<>>)]
        /\ UNCHANGED <<backend, extension, db, automations, clock, usage>>

(* ... and from the settling of storage.findMatching to the return *)
requestSearched(slot, ok) ==
    /\ slot \in DOMAIN calls
    /\ calls[slot].pc = "search"
    /\ Ends(ok)
    /\ ret' = IF ok
              THEN [call |-> "handleAutomationRequest", event |-> calls[slot].event,
                    threw |-> FALSE, searched |-> TRUE,
                    result |-> Decide(calls[slot].held, calls[slot].preference,
                                      StorageFindMatching(
                                          createSearchCriteria(calls[slot].event)))]
              ELSE Propagated(calls[slot].event,
                              CHOOSE failure \in RequestErrors([op |-> "findMatching"]) : TRUE)
    /\ calls' = Without(calls, slot)
    /\ UNCHANGED <<backend, extension, db, automations, userPreferences, clock, usage>>

saveAutomation(event, id, ok) ==
    LET automation == NewAutomation(id, event)
    IN  /\ Ends(ok)
        /\ id \notin StoredIds(Store)
        /\ IF ok THEN Saved(automation) ELSE UNCHANGED <<db, automations, usage>>
        /\ ret' = IF ok
                  THEN [call |-> "saveAutomation", threw |-> FALSE,
                        event |-> event, result |-> automation]
                  ELSE [call |-> "saveAutomation", threw |-> TRUE,
                        error |-> <<"Failed to save automation">>]
        /\ UNCHANGED <<backend, extension, userPreferences, clock, calls>>

setUserPreference(action, website, preference) ==
    /\ \/ getPreferenceKey(action, website) \in DOMAIN userPreferences
       \/ Cardinality(DOMAIN userPreferences) < MaxPrefs
    /\ userPreferences' =
          With(userPreferences, getPreferenceKey(action, website),
               [until |-> PreferenceUntil(clock, preference),
                preference |-> preference])
    /\ ret' = [call |-> "setUserPreference",
               args |-> [key |-> getPreferenceKey(action, website),
                         preference |-> preference],
               replaced |-> IF getPreferenceKey(action, website) \in DOMAIN userPreferences
                            THEN <<userPreferences[getPreferenceKey(action, website)]>>
                            ELSE <<>>]
    /\ UNCHANGED <<backend, extension, db, automations, clock, calls, usage>>

(* the history of a stored id after a completed call *)
RECURSIVE Baselines(_, _)
Baselines(hist, list) ==
    IF list = <<>> THEN hist
    ELSE Baselines(With(hist, Head(list).id, Baseline(Head(list))), Tail(list))

UsageAfter(c, out) ==
    CASE c.op = "save" -> With(usage, c.automation.id, Baseline(c.automation))
      [] c.op = "updateUsage" ->
            IF c.id \in DOMAIN usage /\ ~out.threw
            THEN [usage EXCEPT ![c.id].n = @ + 1]
            ELSE usage
      [] c.op = "deleteById" -> Without(usage, c.id)
      [] c.op = "importAutomations" -> Baselines(usage, c.automations)
      [] c.op = "clear" -> <<>>
      [] OTHER -> usage

(* what ret keeps of a call: the records written are in the store *)
Args(c) == IF c.op \in {"save", "importAutomations"} THEN [op |-> c.op] ELSE c

(* a call of the storage interface, from its start to the promise settling:    *)
(* outcome "ok", or the message of the database request that failed            *)
StorageCall(c, outcome) ==
    LET out == IF backend = "indexeddb" THEN IdbCall(db, c, clock)
               ELSE MemCall(automations, c, clock)
    IN  /\ \/ outcome = "ok"
           \/ backend = "indexeddb" /\ outcome \in RequestErrors(c)
        /\ db' = IF outcome = "ok" /\ backend = "indexeddb" THEN out.store ELSE db
        /\ automations' = IF backend = "memory" THEN out.store ELSE automations
        /\ usage' = IF outcome = "ok" THEN UsageAfter(c, out) ELSE usage
        /\ ret' = IF outcome = "ok"
                  THEN [call |-> c.op, args |-> Args(c), threw |-> out.threw,
                        result |-> out.result]
                  ELSE [call |-> c.op, args |-> Args(c), threw |-> TRUE,
                        result |-> <<outcome>>]
        /\ UNCHANGED <<backend, extension, userPreferences, clock, calls>>

save(automation, outcome) ==
    StorageCall([op |-> "save", automation |-> automation], outcome)

findMatching(criteria, outcome) ==
    StorageCall([op |-> "findMatching", criteria |-> criteria], outcome)

getById(id, outcome) == StorageCall([op |-> "getById", id |-> id], outcome)

updateUsage(id, outcome) ==
    /\ StorageGetById(id) /= Null => StorageGetById(id).metadata.useCount < MaxUse
    /\ outcome = "Failed to save automation" => StorageGetById(id) /= Null
    /\ StorageCall([op |-> "updateUsage", id |-> id], outcome)

deleteById(id, outcome) == StorageCall([op |-> "deleteById", id |-> id], outcome)

exportAll(outcome) == StorageCall([op |-> "exportAll"], outcome)

importAutomations(list, outcome) ==
    StorageCall([op |-> "importAutomations", automations |-> list], outcome)

clear(outcome) == StorageCall([op |-> "clear"], outcome)

(* AutomationManager.getAllAutomations and searchAutomations return what the  *)
(* storage call returns                                                       *)
getAllAutomations(outcome) == exportAll(outcome)

searchAutomations(criteria, outcome) == findMatching(criteria, outcome)

(* a complete call of the storage the manager holds, the database healthy *)
CallOn(store, c) ==
    IF backend = "indexeddb" THEN IdbCall(store, c, clock) ELSE MemCall(store, c, clock)

(* findMatching({}): no criterion given *)
NoCriteria == [eventType |-> "", action |-> "", website |-> "", parameters |-> <<>>,
               context |-> [present |-> FALSE, values |-> <<>>],
               minConfidence |-> NoNumber]

(* a backup restored: exportAutomations, clearAllAutomations, importAutomations *)
(* of the exported list, one after the other, the database healthy.  exportAll  *)
(* resolves with the records of the store in its order, clear leaves an empty   *)
(* store, and importAutomations puts the list into it.  ret keeps what          *)
(* searchAutomations({}) returned before the export.                            *)
exportClearImport ==
    /\ db' = IF backend = "indexeddb" THEN IdbPutAll(<<>>, db) ELSE db
    /\ automations' = IF backend = "memory" THEN MemSetAll(<<>>, automations)
                      ELSE automations
    /\ userPreferences' = <<>>
    /\ usage' = Baselines(<<>>, Store)
    /\ ret' = [call |-> "exportClearImport", threw |-> FALSE, exported |-> Store,
               before |-> StorageFindMatching(NoCriteria)]
    /\ UNCHANGED <<backend, extension, clock, calls>>

(* a preference cache that clear() leaves as it is *)
PreferencesKept(preferences) == preferences

(* this.userPreferences.clear() *)
ClearedPreferences(preferences) == <<>>

(* clearAllAutomations: storage.clear() awaited, then the preference cache     *)
(* cleared; a failed storage.clear() rejects the call before the cache is      *)
(* touched                                                                     *)
clearAllAutomations(outcome) ==
    /\ \/ outcome = "ok"
       \/ backend = "indexeddb" /\ outcome \in RequestErrors([op |-> "clear"])
    /\ db' = IF outcome = "ok" THEN <<>> ELSE db
    /\ automations' = IF outcome = "ok" THEN <<>> ELSE automations
    /\ usage' = IF outcome = "ok" THEN <<>> ELSE usage
    /\ userPreferences' = IF outcome = "ok" THEN ClearedPreferences(userPreferences)
                          ELSE userPreferences
    /\ ret' = IF outcome = "ok"
              THEN [call |-> "clearAllAutomations", threw |-> FALSE,
                    before |-> [records |-> Len(Store),
                                preferences |-> Cardinality(DOMAIN userPreferences)]]
              ELSE [call |-> "clearAllAutomations", threw |-> TRUE,
                    error |-> <<outcome>>]
    /\ UNCHANGED <<backend, extension, clock, calls>>

(* A caller keeps the list exportAll returned.  The database hands out           *)
(* structured clones.  The Map hands out { ...a }: a new record whose metadata  *)
(* is the metadata object of the Map entry, until the entry is replaced or     *)
(* removed.  list is what the caller reads in the records it holds, shared      *)
(* tells for each whether its metadata is still the object of the Map entry.   *)
Holding(list) ==
    [pc |-> "holding", list |-> list,
     shared |-> [i \in DOMAIN list |-> backend = "memory"]]

(* the call puts a new record under id, or removes the one there *)
Replaces(c, id) ==
    \/ c.op = "save" /\ c.automation.id = id
    \/ c.op = "importAutomations" /\ \E i \in DOMAIN c.automations : c.automations[i].id = id
    \/ c.op = "deleteById" /\ c.id = id
    \/ c.op = "clear"

(* the held list after call c left store: updateUsage writes into the metadata *)
(* object of the Map entry, which a shared record reads                        *)
Seen(frame, c, store) ==
    [pc |-> frame.pc,
     list |-> [i \in DOMAIN frame.list |->
                 IF frame.shared[i] /\ c.op = "updateUsage" /\ frame.list[i].id = c.id
                 THEN [frame.list[i] EXCEPT !.metadata = MemGetById(store, c.id).metadata]
                 ELSE frame.list[i]],
     shared |-> [i \in DOMAIN frame.list |->
                   frame.shared[i] /\ ~Replaces(c, frame.list[i].id)]]

(* a call of the storage while callers hold exported lists, the database healthy *)
callWhileHeld(c) ==
    LET out == CallOn(Store, c)
    IN  /\ c.op = "updateUsage" /\ StorageGetById(c.id) /= Null =>
              StorageGetById(c.id).metadata.useCount < MaxUse
        /\ db' = IF backend = "indexeddb" THEN out.store ELSE db
        /\ automations' = IF backend = "memory" THEN out.store ELSE automations
        /\ usage' = UsageAfter(c, out)
        /\ ret' = [call |-> c.op, args |-> Args(c), threw |-> out.threw,
                   result |-> out.result]
        /\ calls' = [slot \in DOMAIN calls |-> Seen(calls[slot], c, out.store)]
        /\ UNCHANGED <<backend, extension, userPreferences, clock>>

(* exportAll, its result kept by the caller *)
keepExport(slot) ==
    LET out == CallOn(Store, [op |-> "exportAll"])
    IN  /\ ret' = [call |-> "exportAll", args |-> [op |-> "exportAll"],
                   threw |-> FALSE, result |-> out.result]
        /\ calls' = With(calls, slot, Holding(out.result))
        /\ UNCHANGED <<backend, extension, db, automations, userPreferences, clock, usage>>

(* the caller counts a use in a record it holds: list[i].metadata.useCount += 1 *)
mutateReturned(slot, i) ==
    /\ slot \in DOMAIN calls
    /\ i \in DOMAIN calls[slot].list
    /\ calls[slot].list[i].metadata.useCount < MaxUse
    /\ LET frame == calls[slot]
           changed == [frame.list[i] EXCEPT !.metadata.useCount = @ + 1]
           entry == [MemGetById(automations, changed.id) EXCEPT
                         !.metadata = changed.metadata]
       IN  /\ calls' = [calls EXCEPT ![slot].list[i] = changed]
           /\ automations' = IF frame.shared[i] THEN MemSet(automations, entry)
                             ELSE automations
           /\ usage' = IF frame.shared[i] THEN With(usage, changed.id, Baseline(entry))
                       ELSE usage
           /\ ret' = [call |-> "mutateReturned", args |-> [id |-> changed.id]]
    /\ UNCHANGED <<backend, extension, db, userPreferences, clock>>

(* executeAutomation without its catch block: the error reaches the caller *)
Uncaught(id, step, error, wrote) ==
    [call |-> "executeAutomation", args |-> [id |-> id], threw |-> TRUE,
     result |-> [success |-> FALSE, error |-> error, automationId |-> id],
     executed |-> FALSE, wrote |-> wrote, step |-> step]

(* executeAutomation: the catch block, and the envelope of a completed run;     *)
(* step names the call of executeAutomation that settled it                    *)
Caught(id, step, error, wrote) ==
    [call |-> "executeAutomation", args |-> [id |-> id], threw |-> FALSE,
     result |-> [success |-> FALSE, error |-> error, automationId |-> id],
     executed |-> FALSE, wrote |-> wrote, step |-> step]

(* the execution step failing after the usage was recorded *)
FailedAfterUsage(id, step, wrote) ==
    [call |-> "executeAutomation", args |-> [id |-> id], threw |-> FALSE,
     result |-> [success |-> FALSE, error |-> <<"Execution failed">>,
                 automationId |-> id],
     executed |-> FALSE, wrote |-> wrote, step |-> step]

Completed(id, step, wrote) ==
    [call |-> "executeAutomation", args |-> [id |-> id], threw |-> FALSE,
     result |-> [success |-> TRUE, error |-> <<>>, automationId |-> id],
     executed |-> TRUE, wrote |-> wrote, step |-> step]

Frame(id, pc, automation, read, wrote) ==
    [automationId |-> id, pc |-> pc, automation |-> automation, read |-> read,
     wrote |-> wrote]

(* executeAutomation up to the settling of storage.getById *)
executeAutomation(slot, id, outcome) ==
    /\ slot \notin DOMAIN calls
    /\ outcome = "ok" \/ backend = "indexeddb"
    /\ IF outcome /= "ok"
       THEN /\ ret' = Caught(id, "getById", <<outcome>>, FALSE)
            /\ calls' = calls
       ELSE IF StorageGetById(id) = Null
       THEN /\ ret' = Caught(id, "getById", NotFound(id), FALSE)
            /\ calls' = calls
       ELSE /\ ret' = NoCall
            /\ calls' = With(calls, slot,
                             Frame(id, "updateUsage", StorageGetById(id), Null, FALSE))
    /\ UNCHANGED <<backend, extension, db, automations, userPreferences, clock, usage>>

(* storage.updateUsage begins: the Map is updated at once; the database is read *)
executeUpdateUsage(slot, outcome) ==
    /\ slot \in DOMAIN calls
    /\ calls[slot].pc = "updateUsage"
    /\ outcome = "ok" \/ backend = "indexeddb"
    /\ LET f == calls[slot]
           id == f.automationId
       IN  /\ StorageGetById(id) /= Null => StorageGetById(id).metadata.useCount < MaxUse
           /\ IF backend = "memory"
              THEN /\ automations' = MemUpdateUsage(automations, id, clock)
                   /\ usage' = IF id \in StoredIds(automations)
                               THEN [usage EXCEPT ![id].n = @ + 1]
                               ELSE usage
                   /\ calls' = [calls EXCEPT ![slot].pc = "simulate",
                                             ![slot].wrote = automations' /= automations]
                   /\ ret' = NoCall
              ELSE /\ UNCHANGED <<automations, usage>>
                   /\ IF outcome /= "ok"
                      THEN /\ ret' = Caught(id, "updateUsage", <<outcome>>, f.wrote)
                           /\ calls' = Without(calls, slot)
                      ELSE IF IdbGetById(db, id) = Null
                      THEN /\ ret' = Caught(id, "updateUsage", NotFound(id), f.wrote)
                           /\ calls' = Without(calls, slot)
                      ELSE /\ ret' = NoCall
                           /\ calls' = [calls EXCEPT ![slot].pc = "save",
                                                     ![slot].read = IdbGetById(db, id)]
    /\ UNCHANGED <<backend, extension, db, userPreferences, clock>>

(* storage.updateUsage of the database ends: the copy read is changed and put *)
executeSave(slot, outcome) ==
    /\ slot \in DOMAIN calls
    /\ calls[slot].pc = "save"
    /\ LET f == calls[slot]
           id == f.automationId
       IN  IF outcome /= "ok"
           THEN /\ ret' = Caught(id, "save", <<outcome>>, f.wrote)
                /\ calls' = Without(calls, slot)
                /\ UNCHANGED <<db, usage>>
           ELSE /\ db' = IdbPut(db, Used(f.read, clock))
                /\ usage' = IF id \in DOMAIN usage
                            THEN [usage EXCEPT ![id].n = @ + 1]
                            ELSE usage
                /\ calls' = [calls EXCEPT ![slot].pc = "simulate",
                                          ![slot].wrote = db' /= db]
                /\ ret' = NoCall
    /\ UNCHANGED <<backend, extension, automations, userPreferences, clock>>

(* simulateExecution and the success envelope *)
executeSimulate(slot) ==
    /\ slot \in DOMAIN calls
    /\ calls[slot].pc = "simulate"
    /\ ret' = Completed(calls[slot].automationId, "simulate", calls[slot].wrote)
    /\ calls' = Without(calls, slot)
    /\ UNCHANGED <<backend, extension, db, automations, userPreferences, clock, usage>>

(* time passes: to the next minute, or to the minute an entry expires or the next *)
Tick(t) ==
    /\ clock < MaxClock
    /\ t > clock
    /\ \/ t = clock + 1
       \/ \E key \in DOMAIN userPreferences :
             t \in {userPreferences[key].until, userPreferences[key].until + 1}
    /\ clock' = t
    /\ ret' = NoCall
    /\ UNCHANGED <<backend, extension, db, automations, userPreferences, calls, usage>>

----------------------------------------------------------------------------
(* WebBuddyClient: sendMessage over HTTP.  A message is a sequence of the       *)
(* pieces that are concatenated into it.                                       *)

(* the constructor: config.retryAttempts || 3 *)
RetryAttempts(config) == IF config = 0 THEN DefaultRetryAttempts ELSE config

(* what fetch may end in: a response (ok with a JSON body, or an HTTP error),  *)
(* or a rejection, as when the connection fails                                *)
Responses ==
    {[fetched |-> TRUE, ok |-> TRUE, status |-> 200, statusText |-> "OK",
      success |-> TRUE, error |-> "", data |-> "data"],
     [fetched |-> TRUE, ok |-> TRUE, status |-> 200, statusText |-> "OK",
      success |-> FALSE, error |-> "Server error", data |-> ""],
     [fetched |-> TRUE, ok |-> TRUE, status |-> 200, statusText |-> "OK",
      success |-> FALSE, error |-> "", data |-> ""],
     [fetched |-> TRUE, ok |-> FALSE, status |-> 500,
      statusText |-> "Internal Server Error", success |-> FALSE, error |-> "",
      data |-> ""],
     [fetched |-> FALSE, ok |-> FALSE, status |-> 0, statusText |-> "",
      success |-> FALSE, error |-> "Failed to fetch", data |-> ""]}

(* one attempt, the operation sendMessage hands to executeWithRetry: the data, *)
(* or the message of the error thrown                                          *)
Operation(response) ==
    IF ~response.fetched THEN [threw |-> TRUE, value |-> <<response.error>>]
    ELSE IF ~response.ok
    THEN [threw |-> TRUE, value |-> <<"HTTP ", response.status, ": ", response.statusText>>]
    ELSE IF ~response.success
    THEN [threw |-> TRUE,
          value |-> IF Truthy(response.error) THEN <<response.error>>
                    ELSE <<"Unknown server error">>]
    ELSE [threw |-> FALSE, value |-> <<response.data>>]

(* executeWithRetry giving up after the first failure *)
executeWithoutRetry(responses, retryAttempts, attempt, lastError) ==
    IF Operation(responses[attempt]).threw
    THEN [threw |-> TRUE, attempts |-> attempt,
          value |-> <<"Operation failed after ", retryAttempts, " attempts: ">>
                        \o Operation(responses[attempt]).value]
    ELSE [threw |-> FALSE, attempts |-> attempt,
          value |-> Operation(responses[attempt]).value]

(* executeWithRetry from the given attempt on; responses[k] is what the k-th    *)
(* fetch ends in                                                               *)
RECURSIVE executeWithRetry(_, _, _, _)
executeWithRetry(responses, retryAttempts, attempt, lastError) ==
    IF attempt > retryAttempts
    THEN [threw |-> TRUE, attempts |-> attempt - 1,
          value |-> <<"Operation failed after ", retryAttempts, " attempts: ">>
                        \o lastError]
    ELSE IF Operation(responses[attempt]).threw
    THEN executeWithRetry(responses, retryAttempts, attempt + 1,
                          Operation(responses[attempt]).value)
    ELSE [threw |-> FALSE, attempts |-> attempt,
          value |-> Operation(responses[attempt]).value]

(* sendMessage of a client constructed with config.retryAttempts = config *)
sendMessage(config, responses) ==
    /\ ret' = [call |-> "sendMessage", retryAttempts |-> RetryAttempts(config),
               responses |-> responses,
               settled |-> executeWithRetry(responses, RetryAttempts(config), 1,
                                            <<"Unknown error">>)]
    /\ UNCHANGED <<backend, extension, db, automations, userPreferences, clock, calls, usage>>

----------------------------------------------------------------------------
(* WebBuddyExtension: the connection to the server.  sockets holds the          *)
(* readyState of every WebSocket the extension constructed, in order; the       *)
(* handlers connect() attaches to a socket stay attached to it whatever         *)
(* this.websocket refers to later.                                              *)

(* this.config.maxReconnectAttempts || 5 *)
MaxReconnectAttempts(config) ==
    IF config = 0 THEN DefaultMaxReconnectAttempts ELSE config

(* the extension as constructed with config.maxReconnectAttempts = config (0:   *)
(* not given); disconnected records that disconnect() was called and connect()  *)
(* not called by anyone but the reconnect timeout since                         *)
NewExtension(config) ==
    [config |-> config, websocket |-> 0, sockets |-> <<>>, reconnectAttempts |-> 0,
     timers |-> 0, heartbeatTimer |-> FALSE, disconnected |-> FALSE]

(* this.websocket = new WebSocket(...) *)
Opened(ext) ==
    [ext EXCEPT !.sockets = Append(@, "CONNECTING"), !.websocket = Len(ext.sockets) + 1]

attemptReconnect(ext) ==
    IF ext.reconnectAttempts >= MaxReconnectAttempts(ext.config) THEN ext
    ELSE [ext EXCEPT !.reconnectAttempts = @ + 1, !.timers = @ + 1]

(* connect() called by the user of the extension *)
connect ==
    /\ Len(extension.sockets) < MaxSockets
    /\ extension' = [Opened(extension) EXCEPT !.disconnected = FALSE]
    /\ ret' = [call |-> "connect", by |-> "caller"]
    /\ UNCHANGED <<backend, db, automations, userPreferences, clock, calls, usage>>

(* the setTimeout callback of attemptReconnect: this.connect() *)
reconnectTimeout ==
    /\ extension.timers > 0
    /\ Len(extension.sockets) < MaxSockets
    /\ extension' = [Opened(extension) EXCEPT !.timers = @ - 1]
    /\ ret' = [call |-> "connect", by |-> "timer"]
    /\ UNCHANGED <<backend, db, automations, userPreferences, clock, calls, usage>>

(* websocket.onopen of a socket whose connection is established *)
onopen(socket) ==
    /\ socket \in 1..Len(extension.sockets)
    /\ extension.sockets[socket] = "CONNECTING"
    /\ extension' = [extension EXCEPT !.sockets[socket] = "OPEN",
                                      !.reconnectAttempts = 0,
                                      !.heartbeatTimer = TRUE]
    /\ ret' = [call |-> "onopen", socket |-> socket]
    /\ UNCHANGED <<backend, db, automations, userPreferences, clock, calls, usage>>

(* websocket.onclose of a socket: the connection failed, was lost, or was       *)
(* closed by close()                                                            *)
onclose(socket) ==
    /\ socket \in 1..Len(extension.sockets)
    /\ extension.sockets[socket] /= "CLOSED"
    /\ extension' = attemptReconnect([extension EXCEPT !.sockets[socket] = "CLOSED",
                                                       !.heartbeatTimer = FALSE])
    /\ ret' = [call |-> "onclose", socket |-> socket]
    /\ UNCHANGED <<backend, db, automations, userPreferences, clock, calls, usage>>

disconnect ==
    /\ extension' =
          [extension EXCEPT
              !.heartbeatTimer = FALSE,
              !.sockets = IF extension.websocket /= 0
                             /\ extension.sockets[extension.websocket] /= "CLOSED"
                          THEN [@ EXCEPT ![extension.websocket] = "CLOSING"]
                          ELSE @,
              !.websocket = 0,
              !.disconnected = TRUE]
    /\ ret' = [call |-> "disconnect"]
    /\ UNCHANGED <<backend, db, automations, userPreferences, clock, calls, usage>>

----------------------------------------------------------------------------
(* Inputs *)

NoContext == [present |-> FALSE, values |-> <<>>]

NoPatterns == [present |-> FALSE, patterns |-> <<>>]

(* automation requests: AutomationRequestedEvent *)
Requests ==
    [type : {"automationRequested"},
     payload : [action : {"search"},
                parameters : {<<"query">>},
                context : {NoContext}],
     website : {"example.com", ""}]

Recording(action, website, host, script) ==
    [website |-> website,
     payload |-> [action |-> action, templatedScript |-> script,
                  context |-> NoPatterns,
                  metadata |-> [websiteHost |-> host]]]

(* recordings: AutomationImplementedEvent *)
Recordings ==
    {Recording("search", "example.com", "", <<"query", "page", "query">>),
     Recording("login", "example.com", "", <<"query", "page", "query">>),
     Recording("search", "", "other.org", <<"query", "page", "query">>),
     Recording("search", "example.com", "", <<>>)}

Record(id, confidence, useCount) ==
    [id |-> id,
     eventType |-> "automationRequested",
     action |-> "search",
     website |-> "example.com",
     parameters |-> <<"query">>,
     metadata |-> [lastUsed |-> NoDate, useCount |-> useCount,
                   confidence |-> Double(confidence)],
     matching |-> [exactParameters |-> <<"query">>, contextPatterns |-> NoPatterns]]

(* records a caller of the storage saves or imports *)
Records ==
    {Record(id, 45, 0) : id \in Ids} \cup {Record(id, 90, 1) : id \in Ids}
        \cup {Record(id, 100, 0) : id \in Ids}

Automation(id, eventType, action, patterns, confidence, useCount) ==
    [id |-> id,
     eventType |-> eventType,
     action |-> action,
     website |-> "example.com",
     parameters |-> <<"query">>,
     metadata |-> [lastUsed |-> NoDate, useCount |-> useCount,
                   confidence |-> Double(confidence)],
     matching |-> [exactParameters |-> <<"query">>, contextPatterns |-> patterns]]

PagePattern(pattern) == [present |-> TRUE, patterns |-> [page |-> pattern]]

PageContext(value) == [present |-> TRUE, values |-> [page |-> value]]

(* records the callers of the storage interface save: two in the tie band of    *)
(* the ranking, one under the relevance floor, one a step from saturation, one  *)
(* of another action, one of another event type, one restricted to a context   *)
StorageRecords ==
    UNION {{Record(id, 90, 0), Record(id, 81, 1), Record(id, 45, 0), Record(id, 97, 0),
            Automation(id, "automationRequested", "login", NoPatterns, 80, 0),
            Automation(id, "other", "search", NoPatterns, 80, 0),
            Automation(id, "automationRequested", "search",
                       PagePattern(<<"a", "b", "c", "*">>), 80, 0)} : id \in Ids}

Criterion(eventType, action, website, parameters, context, minConfidence) ==
    [eventType |-> eventType, action |-> action, website |-> website,
     parameters |-> parameters, context |-> context, minConfidence |-> minConfidence]

(* search criteria: none, those of a request, an event type beside an action,  *)
(* an event type beside a website, an event type alone, and a context that a   *)
(* wildcard pattern must not accept                                            *)
Criteria ==
    {Criterion("", "", "", <<>>, NoContext, NoNumber),
     Criterion("other", "", "example.com", <<>>, NoContext, NoNumber),
     Criterion("automationRequested", "search", "example.com", <<"query">>,
               NoContext, Number(MinConfidence)),
     Criterion("automationRequested", "search", "", <<>>, NoContext, NoNumber),
     Criterion("other", "", "", <<>>, NoContext, NoNumber),
     Criterion("", "search", "example.com", <<>>,
               PageContext(<<"x", "a", "b", "c">>), NoNumber)}

ImportLists ==
    {<<>>,
     <<Record(2, 90, 0), Record(1, 81, 1)>>,
     <<Record(1, 90, 0), Record(1, 45, 0)>>}

(* records in store while automations are executed *)
ExecRecords == {Record(id, 90, 0) : id \in Ids} \cup {Record(id, 100, 1) : id \in Ids}

(* records at the ends of the confidence range and a step from saturation, a   *)
(* recording and an import, for the life of a stored automation                *)
LifeRecords ==
    {Record(id, 0, 0) : id \in Ids} \cup {Record(id, 97, 1) : id \in Ids}
        \cup {Record(id, 100, 0) : id \in Ids}

LifeRecordings == {Recording("search", "example.com", "", <<"query">>)}

LifeImports == {<<Record(2, 100, 1), Record(1, 0, 0)>>}

(* how a call of the storage may end *)
Outcomes(op) == {"ok"} \cup RequestErrors([op |-> op])

(* user choices: ReusePreference *)
Preferences ==
    [action : {"reuse", "record-new", "skip"},
     doNotAskFor : {[present |-> TRUE, type |-> "duration", value |-> 1]}]

(* user choices with each kind of doNotAskFor: minutes, times, and none given *)
TimedPreferences ==
    [action : {"reuse", "record-new", "skip"},
     doNotAskFor : {[present |-> TRUE, type |-> "duration", value |-> 1],
                    [present |-> TRUE, type |-> "times", value |-> 1],
                    [present |-> FALSE, type |-> "", value |-> 0]}]

(* the (action, website) pairs preferences are set for *)
PreferenceTargets ==
    {<<"search", "example.com">>, <<"search", "any">>, <<"login", "example.com">>}

----------------------------------------------------------------------------
(* The decision engine over either backend *)

Init ==
    /\ backend \in Backends
    /\ db = <<>>
    /\ automations = <<>>
    /\ userPreferences = <<>>
    /\ clock = 0
    /\ calls = <<>>
    /\ ret = NoCall
    /\ usage = <<>>
    /\ extension = NewExtension(0)

Next ==
    \/ \E event \in Requests, ok \in BOOLEAN : handleAutomationRequest(event, ok)
    \/ \E event \in Recordings, id \in Ids, ok \in BOOLEAN : saveAutomation(event, id, ok)
    \/ \E target \in PreferenceTargets, preference \in Preferences :
          setUserPreference(target[1], target[2], preference)
    \/ \E automation \in Records, outcome \in Outcomes("save") : save(automation, outcome)
    \/ \E t \in 1..(MaxClock + 2) : Tick(t)

Spec == Init /\ [][Next]_vars

----------------------------------------------------------------------------
(* The storage interface, called directly, one call after the other *)

NextStorage ==
    \/ \E automation \in StorageRecords, outcome \in Outcomes("save") : save(automation, outcome)
    \/ \E criteria \in Criteria, outcome \in Outcomes("findMatching") : findMatching(criteria, outcome)
    \/ \E id \in Ids, outcome \in Outcomes("getById") : getById(id, outcome)
    \/ \E id \in Ids, outcome \in Outcomes("updateUsage") : updateUsage(id, outcome)
    \/ \E id \in Ids, outcome \in Outcomes("deleteById") : deleteById(id, outcome)
    \/ \E outcome \in Outcomes("exportAll") : exportAll(outcome)
    \/ \E list \in ImportLists, outcome \in Outcomes("importAutomations") : importAutomations(list, outcome)
    \/ \E outcome \in Outcomes("clear") : clear(outcome)

SpecStorage == Init /\ [][NextStorage]_vars

----------------------------------------------------------------------------
(* Both backends given the same calls, the database healthy *)

Both(c) ==
    LET idb == IdbCall(db, c, clock)
        mem == MemCall(automations, c, clock)
    IN  /\ db' = idb.store
        /\ automations' = mem.store
        /\ ret' = [call |-> "both", args |-> Args(c),
                   indexeddb |-> [threw |-> idb.threw, result |-> idb.result],
                   memory |-> [threw |-> mem.threw, result |-> mem.result]]
        /\ UNCHANGED <<backend, extension, userPreferences, clock, calls, usage>>

UsableBy(store, id) ==
    id \in StoredIds(store) => store[IndexOfId(store, id)].metadata.useCount < MaxUse

InitBoth ==
    /\ backend = "both"
    /\ db = <<>>
    /\ automations = <<>>
    /\ userPreferences = <<>>
    /\ clock = 0
    /\ calls = <<>>
    /\ ret = NoCall
    /\ usage = <<>>
    /\ extension = NewExtension(0)

NextBoth ==
    \/ \E automation \in StorageRecords : Both([op |-> "save", automation |-> automation])
    \/ \E criteria \in Criteria : Both([op |-> "findMatching", criteria |-> criteria])
    \/ \E id \in Ids : Both([op |-> "getById", id |-> id])
    \/ \E id \in Ids : /\ UsableBy(db, id) /\ UsableBy(automations, id)
                       /\ Both([op |-> "updateUsage", id |-> id])
    \/ \E id \in Ids : Both([op |-> "deleteById", id |-> id])
    \/ Both([op |-> "exportAll"])
    \/ \E list \in ImportLists : Both([op |-> "importAutomations", automations |-> list])
    \/ Both([op |-> "clear"])

SpecBoth == InitBoth /\ [][NextBoth]_vars

----------------------------------------------------------------------------
(* The execution tracker, its calls interleaved with saves and deletions *)

Slots == 1..MaxCalls

NextExec ==
    \/ \E automation \in ExecRecords, outcome \in Outcomes("save") : save(automation, outcome)
    \/ \E id \in Ids, outcome \in Outcomes("deleteById") : deleteById(id, outcome)
    \/ \E slot \in Slots, id \in Ids, outcome \in Outcomes("getById") :
          executeAutomation(slot, id, outcome)
    \/ \E slot \in Slots, outcome \in Outcomes("getById") :
          executeUpdateUsage(slot, outcome)
    \/ \E slot \in Slots, outcome \in Outcomes("save") : executeSave(slot, outcome)
    \/ \E slot \in Slots : executeSimulate(slot)

SpecExec == Init /\ [][NextExec]_vars

----------------------------------------------------------------------------
(* Concurrent reuse: executeAutomation calls in flight together, beside        *)
(* updateUsage calls of other callers, the database healthy; records are saved *)
(* while no call is in flight                                                  *)

Racers == 1..(MaxCalls + 1)

RaceRecords == {Record(id, 90, 0) : id \in Ids}

NextRace ==
    \/ \E automation \in RaceRecords : calls = <<>> /\ save(automation, "ok")
    \/ \E id \in Ids : updateUsage(id, "ok")
    \/ \E slot \in Racers, id \in Ids : executeAutomation(slot, id, "ok")
    \/ \E slot \in Racers : executeUpdateUsage(slot, "ok")
    \/ \E slot \in Racers : executeSave(slot, "ok")
    \/ \E slot \in Racers : executeSimulate(slot)

SpecRace == Init /\ [][NextRace]_vars

----------------------------------------------------------------------------
(* The life of stored automations: created, overwritten, used, deleted; the    *)
(* calls one after the other                                                   *)

NextLife ==
    \/ \E event \in LifeRecordings, id \in Ids, ok \in BOOLEAN : saveAutomation(event, id, ok)
    \/ \E automation \in LifeRecords, outcome \in Outcomes("save") : save(automation, outcome)
    \/ \E list \in LifeImports, outcome \in Outcomes("importAutomations") :
          importAutomations(list, outcome)
    \/ \E id \in Ids, outcome \in Outcomes("updateUsage") : updateUsage(id, outcome)
    \/ \E id \in Ids, outcome \in Outcomes("deleteById") : deleteById(id, outcome)
    \/ \E outcome \in Outcomes("clear") : clear(outcome)

SpecLife == Init /\ [][NextLife]_vars

----------------------------------------------------------------------------
(* Backup and restore of a store that was saved to, used and deleted from, the *)
(* database healthy                                                            *)

NextTrip ==
    \/ \E automation \in StorageRecords : save(automation, "ok")
    \/ \E id \in Ids : updateUsage(id, "ok")
    \/ \E id \in Ids : deleteById(id, "ok")
    \/ \E t \in 1..MaxClock : Tick(t)
    \/ exportClearImport

SpecTrip == Init /\ [][NextTrip]_vars

----------------------------------------------------------------------------
(* A caller holding an exported list while the store is used and changed *)

Holder == 1

NextHeld ==
    \/ \E automation \in ExecRecords : callWhileHeld([op |-> "save", automation |-> automation])
    \/ \E id \in Ids : callWhileHeld([op |-> "updateUsage", id |-> id])
    \/ \E id \in Ids : callWhileHeld([op |-> "deleteById", id |-> id])
    \/ callWhileHeld([op |-> "clear"])
    \/ keepExport(Holder)
    \/ \E i \in Ids : mutateReturned(Holder, i)

SpecHeld == Init /\ [][NextHeld]_vars

----------------------------------------------------------------------------
(* The client against a server that answers each attempt in any way *)

NextClient ==
    \E config \in 0..MaxAttempts, responses \in [1..MaxAttempts -> Responses] :
        sendMessage(config, responses)

SpecClient == Init /\ [][NextClient]_vars

----------------------------------------------------------------------------
(* A request in its steps, preferences set, records saved and time passing     *)
(* while it awaits the search                                                  *)

NextRequest ==
    \/ \E slot \in Slots, event \in Requests : requestPreferenceChecked(slot, event)
    \/ \E slot \in Slots, ok \in BOOLEAN : requestSearched(slot, ok)
    \/ \E target \in PreferenceTargets, preference \in Preferences :
          setUserPreference(target[1], target[2], preference)
    \/ \E automation \in ExecRecords : save(automation, "ok")
    \/ \E t \in 1..(MaxClock + 2) : Tick(t)

SpecRequest == Init /\ [][NextRequest]_vars

----------------------------------------------------------------------------
(* The preference cache: entries set with each kind of expiry, read by requests *)
(* before, at and after the minute they expire                                 *)

LastMinute == DefaultHours * MinutesPerHour + MaxClock + 1

NextPrefs ==
    \/ \E target \in PreferenceTargets, preference \in TimedPreferences :
          setUserPreference(target[1], target[2], preference)
    \/ \E event \in Requests, ok \in BOOLEAN : handleAutomationRequest(event, ok)
    \/ \E event \in LifeRecordings, id \in Ids : saveAutomation(event, id, TRUE)
    \/ \E t \in 1..LastMinute : Tick(t)

SpecPrefs == Init /\ [][NextPrefs]_vars

----------------------------------------------------------------------------
(* The preference cache with actions and websites that contain ':': every      *)
(* preference is set for an (action, website) pair that no request has         *)

KeyRequests ==
    [type : {"automationRequested"},
     payload : [action : {"form:submit", "search"},
                parameters : {<<"query">>},
                context : {NoContext}],
     website : {"example.com", ""}]

KeyTargets ==
    {<<"form", "submit:example.com">>, <<"form", "example.com">>,
     <<"login", "example.com">>, <<"search", "other.org">>}

NextKeys ==
    \/ \E target \in KeyTargets, preference \in TimedPreferences :
          setUserPreference(target[1], target[2], preference)
    \/ \E event \in KeyRequests, ok \in BOOLEAN : handleAutomationRequest(event, ok)
    \/ \E event \in LifeRecordings, id \in Ids : saveAutomation(event, id, TRUE)
    \/ \E t \in 1..LastMinute : Tick(t)

SpecKeys == Init /\ [][NextKeys]_vars

----------------------------------------------------------------------------
(* The read operations of the storage and of the manager, over records that    *)
(* were saved and used and preferences that were set and have expired          *)

(* a fresh record and one imported with a use *)
ReadRecords == {Record(1, 90, 0), Record(2, 100, 1)}

ReadCriteria == {criteria \in Criteria : criteria.action = "search"}

NextReads ==
    \/ \E automation \in ReadRecords : save(automation, "ok")
    \/ \E id \in {1} : updateUsage(id, "ok")
    \/ \E criteria \in ReadCriteria, outcome \in Outcomes("findMatching") :
          findMatching(criteria, outcome)
    \/ \E id \in Ids, outcome \in Outcomes("getById") : getById(id, outcome)
    \/ \E outcome \in Outcomes("exportAll") : exportAll(outcome)
    \/ \E outcome \in Outcomes("exportAll") : getAllAutomations(outcome)
    \/ \E criteria \in ReadCriteria, outcome \in Outcomes("findMatching") :
          searchAutomations(criteria, outcome)
    \/ \E event \in Requests, ok \in BOOLEAN : handleAutomationRequest(event, ok)
    \/ \E target \in PreferenceTargets, preference \in Preferences :
          setUserPreference(target[1], target[2], preference)
    \/ \E t \in 1..(MaxClock + 1) : Tick(t)

SpecReads == Init /\ [][NextReads]_vars

----------------------------------------------------------------------------
(* Recordings saved with and without a context, used, deleted, and asked for   *)
(* again by requests with and without a context                                *)

ReuseRecordings ==
    {[recording EXCEPT !.payload.context = context] :
        recording \in {Recording("search", "example.com", "", <<"query", "page", "query">>)},
        context \in {NoPatterns, PagePattern(<<"a", "b", "c">>)}}

ReuseRequests ==
    [type : {"automationRequested"},
     payload : [action : {"search"},
                parameters : {<<"query">>},
                context : {NoContext, PageContext(<<"a", "b", "c">>), PageContext(<<"x">>)}],
     website : {"example.com", "other.org"}]

ReusePreferences == {preference \in Preferences : preference.action = "reuse"}

NextReuse ==
    \/ \E event \in ReuseRecordings, id \in Ids : saveAutomation(event, id, TRUE)
    \/ \E event \in ReuseRequests, ok \in BOOLEAN : handleAutomationRequest(event, ok)
    \/ \E id \in {1} : updateUsage(id, "ok")
    \/ \E id \in Ids : deleteById(id, "ok")
    \/ \E preference \in ReusePreferences :
          setUserPreference("search", "example.com", preference)
    \/ \E t \in 1..(MaxClock + 1) : Tick(t)

SpecReuse == Init /\ [][NextReuse]_vars

----------------------------------------------------------------------------
(* A reset among recordings, searches, preferences and requests *)

NextClear ==
    \/ \E outcome \in Outcomes("clear") : clearAllAutomations(outcome)
    \/ \E event \in LifeRecordings, id \in Ids : saveAutomation(event, id, TRUE)
    \/ \E automation \in ReadRecords : save(automation, "ok")
    \/ \E criteria \in ReadCriteria, outcome \in Outcomes("findMatching") :
          findMatching(criteria, outcome)
    \/ \E event \in Requests, ok \in BOOLEAN : handleAutomationRequest(event, ok)
    \/ \E target \in PreferenceTargets, preference \in Preferences :
          setUserPreference(target[1], target[2], preference)
    \/ \E t \in 1..(MaxClock + 1) : Tick(t)

SpecClear == Init /\ [][NextClear]_vars

----------------------------------------------------------------------------
(* The extension's connection: connects, opens, losses, disconnects and the    *)
(* reconnect timeouts, for each configured number of attempts                  *)

InitExtension ==
    /\ backend = "memory"
    /\ db = <<>>
    /\ automations = <<>>
    /\ userPreferences = <<>>
    /\ clock = 0
    /\ calls = <<>>
    /\ ret = NoCall
    /\ usage = <<>>
    /\ extension \in {NewExtension(config) : config \in 0..MaxReconnects}

NextExtension ==
    \/ connect
    \/ reconnectTimeout
    \/ \E socket \in 1..MaxSockets : onopen(socket)
    \/ \E socket \in 1..MaxSockets : onclose(socket)
    \/ disconnect

SpecExtension == InitExtension /\ [][NextExtension]_vars

----------------------------------------------------------------------------
(* Properties of the decision engine (Spec).  ret holds a decision exactly in  *)
(* the state handleAutomationRequest leaves: the store is the one it queried,  *)
(* the clock the one it read, and of the preference cache only an expired      *)
(* entry of the request's key is gone.                                         *)

Decided == ret.call = "handleAutomationRequest" /\ ~ret.threw

RequestKey == getPreferenceKey(ret.event.payload.action, ret.event.website)

(* an entry for the request's key whose expiry the clock has not passed *)
Unexpired ==
    /\ RequestKey \in DOMAIN userPreferences
    /\ userPreferences[RequestKey].until >= clock

UnexpiredAction(actions) ==
    Unexpired /\ userPreferences[RequestKey].preference.action \in actions

(* what findMatching returns for the criteria derived from the request *)
RequestMatches ==
    StorageFindMatching(
        [eventType |-> ret.event.type, action |-> ret.event.payload.action,
         website |-> ret.event.website, parameters |-> ret.event.payload.parameters,
         context |-> ret.event.payload.context, minConfidence |-> Number(MinConfidence)])

\* C1: with an unexpired 'skip' or 'record-new' preference for the request's key,
\* handleAutomationRequest returns 'record-new' and no automation, whatever is stored.
C1_SkipOrRecordNewWins ==
    Decided /\ UnexpiredAction({"skip", "record-new"})
        => ret.result.action = "record-new" /\ ret.result.automation = Null

(* a 'skip' preference overrode a stored match of confidence 1.0 *)
C1_Witness ==
    /\ Decided
    /\ UnexpiredAction({"skip"})
    /\ ret.result.action = "record-new"
    /\ Len(RequestMatches) > 0
    /\ RequestMatches[1].metadata.confidence = Double(FullConfidence)

\* C2: handleAutomationRequest returns 'reuse-prompt' exactly when no unexpired
\* preference exists for the key and findMatching returns a record; the automation is
\* then the first match and the message counts all the matches.
C2_ReusePromptIff ==
    Decided =>
        /\ ret.result.action = "reuse-prompt"
              <=> (~Unexpired /\ Len(RequestMatches) >= 1)
        /\ ret.result.action = "reuse-prompt" =>
              /\ ret.result.automation = RequestMatches[1]
              /\ ret.result.message =
                    <<"Found ", Len(RequestMatches), " matching automation(s)">>

(* a prompt for the first of two matches *)
C2_Witness ==
    /\ Decided
    /\ ret.result.action = "reuse-prompt"
    /\ Len(RequestMatches) = 2
    /\ ret.result.message = <<"Found ", 2, " matching automation(s)">>

\* C3: with an unexpired 'reuse' preference for the key and at least one match,
\* handleAutomationRequest returns 'execute' with the first match.
C3_ReuseExecutes ==
    Decided /\ UnexpiredAction({"reuse"}) /\ Len(RequestMatches) >= 1
        => ret.result.action = "execute" /\ ret.result.automation = RequestMatches[1]

(* 'reuse' executed the first of two matches *)
C3_Witness ==
    /\ Decided
    /\ UnexpiredAction({"reuse"})
    /\ Len(RequestMatches) = 2
    /\ ret.result.action = "execute"

\* C4: when findMatching returns no record the decision is 'record-new' without an
\* automation, with no preference and with 'reuse'; an automation is present exactly
\* when the action is 'execute' or 'reuse-prompt'.
C4_NoMatchRecordsNew ==
    Decided =>
        /\ Len(RequestMatches) = 0 =>
              ret.result.action = "record-new" /\ ret.result.automation = Null
        /\ ret.result.automation /= Null
              <=> ret.result.action \in {"execute", "reuse-prompt"}

(* 'reuse' was preferred, records are stored, none matches *)
C4_Witness ==
    /\ Decided
    /\ UnexpiredAction({"reuse"})
    /\ Len(Store) > 0
    /\ Len(RequestMatches) = 0
    /\ ret.result.action = "record-new"

----------------------------------------------------------------------------
(* Properties of the storage interface (SpecStorage, SpecBoth) *)

Confidence(a) == a.metadata.confidence

UseCount(a) == a.metadata.useCount

(* the numbers x and y differ by more than 0.1, in exact arithmetic *)
MoreThanATenthApart(x, y) ==
    LET gap == IF DoubleLess(x, y)
               THEN [h |-> y.h - x.h, e |-> y.e - x.e]
               ELSE [h |-> x.h - y.h, e |-> x.e - y.e]
    IN  DoubleLess([h |-> 10, e |-> 0], gap)

\* C6: in the list findMatching returns, of two records whose confidences differ by
\* more than 0.1 the more confident comes first, and of two whose confidences differ
\* by at most 0.1 the one with the higher useCount comes first.
C6_PairwiseRanking ==
    ret.call = "findMatching" /\ ~ret.threw =>
        \A i, j \in 1..Len(ret.result) :
            i < j =>
                LET first == ret.result[i]
                    second == ret.result[j]
                IN  IF MoreThanATenthApart(Confidence(first), Confidence(second))
                    THEN DoubleLess(Confidence(second), Confidence(first))
                    ELSE UseCount(first) >= UseCount(second)

\* C7: given the same sequence of calls, the IndexedDB backend and the in-memory
\* backend return the same results: the same records in the same order, the same
\* success or error.
C7_BackendsAgree == ret.call = "both" => ret.indexeddb = ret.memory

(* n * x, n a whole number *)
DoubleTimes(x, n) == Round(x.h * n, x.e * n)

(* the number min(1, c0 + 0.05 n), in exact arithmetic *)
ExactUsage(c0, n) ==
    LET sum == c0.h + 5 * n
    IN  IF sum > 100 \/ (sum = 100 /\ c0.e >= 0)
        THEN [h |-> 100, e |-> 0]
        ELSE [h |-> sum, e |-> c0.e]

(* 2^-53, the rounding error one addition can make under 1, as an e *)
StepError == 100 * 16

\* C8 (as stated): after N updateUsage calls, one after the other, on a stored
\* automation written with confidence c0 and useCount u0, its confidence equals
\* Math.min(1, c0 + 0.05 * N) and its useCount is u0 + N.
C8_UsageEqualsClosedForm ==
    \A id \in DOMAIN usage :
        /\ id \in StoredIds(Store)
        /\ LET a == StorageGetById(id)
               u == usage[id]
           IN  /\ Confidence(a) =
                     MathMin(Double(100), DoubleAdd(u.c0, DoubleTimes(Double(5), u.n)))
               /\ UseCount(a) = u.u0 + u.n

\* C8 (amended): after N updateUsage calls, one after the other, on a stored automation
\* written with confidence c0 and useCount u0, its useCount is u0 + N and its
\* confidence is within N * 2^-53 of min(1, c0 + 0.05 N); the confidence is never under
\* c0 and never over 1.
C8_UsageArithmetic ==
    \A id \in DOMAIN usage :
        /\ id \in StoredIds(Store)
        /\ LET a == StorageGetById(id)
               u == usage[id]
               exact == ExactUsage(u.c0, u.n)
           IN  /\ Confidence(a).h = exact.h
               /\ Confidence(a).e - exact.e <= StepError * u.n
               /\ exact.e - Confidence(a).e <= StepError * u.n
               /\ UseCount(a) = u.u0 + u.n
               /\ ~DoubleLess(Confidence(a), u.c0)
               /\ ~DoubleLess(Double(100), Confidence(a))

(* two calls on a record a step from saturation: the sum is over 1, the value 1 *)
C8_Witness ==
    /\ ret.call = "updateUsage"
    /\ ~ret.threw
    /\ ret.args.id \in DOMAIN usage
    /\ usage[ret.args.id].n = 2
    /\ usage[ret.args.id].c0.h + 10 > 100
    /\ Confidence(StorageGetById(ret.args.id)) = Double(100)

\* C9: updateUsage(id) for an id that is not stored fails with a NotFound error, in
\* both backends, and leaves the store as it was (a failed read of the database
\* aside, which fails the call too).
C9_MissingIdNotFound ==
    [][ret'.call = "updateUsage" /\ ret'.args.id \notin StoredIds(Store) =>
          /\ ret'.threw
          /\ \/ ret'.result = <<"Automation ", ret'.args.id, " not found">>
             \/ ret'.result = <<"Failed to get automation">>
          /\ db' = db
          /\ automations' = automations]_vars

----------------------------------------------------------------------------
(* Properties of the execution tracker (SpecExec) *)

Executed == ret.call = "executeAutomation"

\* C10: executeAutomation never throws: it returns an envelope carrying the requested
\* automationId, with success=false and an error message for a missing id, a failed
\* storage call or a failed execution; for a missing id it writes nothing.
C10_ExecuteNeverThrows ==
    Executed =>
        /\ ~ret.threw
        /\ ret.result.automationId = ret.args.id
        /\ ret.result.success \in BOOLEAN
        /\ ~ret.result.success => ret.result.error /= <<>> /\ ~ret.executed
        /\ ret.result.error = <<"Automation ", ret.args.id, " not found">> =>
              ~ret.result.success /\ ~ret.wrote
        /\ ret.step = "getById" /\ ret.args.id \notin StoredIds(Store) =>
              /\ ~ret.result.success
              /\ ~ret.wrote
              /\ \/ ret.result.error = <<"Automation ", ret.args.id, " not found">>
                 \/ ret.result.error = <<"Failed to get automation">>
        /\ ret.result.success => ret.executed /\ ret.step = "simulate"

(* a missing id, other records being stored: a failure envelope *)
C10_Witness ==
    /\ Executed
    /\ ~ret.result.success
    /\ ret.step = "getById"
    /\ ret.result.error = <<"Automation ", ret.args.id, " not found">>
    /\ ret.args.id \notin StoredIds(Store)
    /\ Len(Store) > 0

\* C11: whenever executeAutomation(id) returns success=false, the call has written
\* nothing: neither an earlier step of the call nor the step that fails changes the
\* useCount or the confidence of a stored automation.
C11_FailureLeavesUsage ==
    [][ret'.call = "executeAutomation" /\ ~ret'.result.success =>
          /\ ~ret'.wrote
          /\ db' = db
          /\ automations' = automations]_vars

(* the usage update of a stored automation failed and the envelope says so *)
C11_Witness ==
    /\ Executed
    /\ ~ret.result.success
    /\ ret.step \in {"updateUsage", "save"}
    /\ ret.args.id \in StoredIds(Store)
    /\ ~ret.wrote

----------------------------------------------------------------------------
(* Properties of the life of a stored automation (SpecLife) *)

One == [h |-> 100, e |-> 0]

\* C12: every stored automation has a confidence within [0,1], the records passed to
\* save and importAutomations having one within [0,1]; a record saveAutomation
\* creates starts at 0.8, and updateUsage stops at 1.0.
C12_ConfidenceInUnitInterval ==
    /\ \A i \in 1..Len(Store) :
          /\ ~DoubleLess(Confidence(Store[i]), Zero)
          /\ ~DoubleLess(One, Confidence(Store[i]))
    /\ ret.call = "saveAutomation" /\ ~ret.threw =>
          Confidence(StorageGetById(ret.result.id)) = Double(80)
    /\ ret.call = "updateUsage" /\ ~ret.threw /\ ret.args.id \in DOMAIN usage =>
          LET u == usage[ret.args.id]
          IN  u.c0.h + 5 * u.n > 100 => Confidence(StorageGetById(ret.args.id)) = One

(* a record 0.03 under 1.0 was used and holds exactly 1.0 *)
C12_Witness ==
    /\ ret.call = "updateUsage"
    /\ ~ret.threw
    /\ ret.args.id \in DOMAIN usage
    /\ usage[ret.args.id].c0 = Double(97)
    /\ usage[ret.args.id].n = 1
    /\ Confidence(StorageGetById(ret.args.id)) = One

----------------------------------------------------------------------------
(* Properties of concurrent reuse (SpecRace) *)

\* C13: the useCount of a stored automation is at least 0 and, while the record
\* exists, no step of any call lowers it.
C13_UseCountNeverDecreases ==
    [][/\ \A i \in 1..Len(Store) : UseCount(Store[i]) >= 0
       /\ \A id \in StoredIds(db) \cap StoredIds(db') :
             UseCount(IdbGetById(db', id)) >= UseCount(IdbGetById(db, id))
       /\ \A id \in StoredIds(automations) \cap StoredIds(automations') :
             UseCount(MemGetById(automations', id))
                 >= UseCount(MemGetById(automations, id))]_vars

\* C14: when k concurrent updateUsage / executeAutomation calls on the same stored
\* automation have all completed, its useCount is k higher than it was written with,
\* and its confidence is min(1, c0 + 0.05 k), to the rounding of the k additions.
C14_NoLostUpdate ==
    calls = <<>> =>
        \A id \in DOMAIN usage :
            id \in StoredIds(Store) =>
                LET a == StorageGetById(id)
                    u == usage[id]
                IN  /\ UseCount(a) = u.u0 + u.n
                    /\ Confidence(a).h = ExactUsage(u.c0, u.n).h

----------------------------------------------------------------------------
(* Properties of the preference cache (SpecPrefs); the clock counts minutes *)

(* the entry of key was set or replaced by this step *)
EntrySet(key) ==
    /\ key \in DOMAIN userPreferences'
    /\ key \notin DOMAIN userPreferences \/ userPreferences'[key] /= userPreferences[key]

\* C15: setUserPreference stores the entry with expiry now + value minutes for a
\* doNotAskFor of type 'duration', now + value hours for type 'times', and now + 24
\* hours when doNotAskFor is absent.
C15_ExpiryAtSetTime ==
    [][ret'.call = "setUserPreference" =>
          \A key \in DOMAIN userPreferences' : EntrySet(key) =>
              LET entry == userPreferences'[key]
                  ask == entry.preference.doNotAskFor
              IN  /\ ask.present /\ ask.type = "duration" => entry.until = clock + ask.value
                  /\ ask.present /\ ask.type = "times" => entry.until = clock + 60 * ask.value
                  /\ ~ask.present => entry.until = clock + 24 * 60]_vars

(* a preference of type 'times' set after a minute has passed expires an hour later *)
C15_Witness ==
    /\ ret.call = "setUserPreference"
    /\ clock = 1
    /\ \E key \in DOMAIN userPreferences :
          /\ userPreferences[key].preference.doNotAskFor.type = "times"
          /\ userPreferences[key].until = 61

(* the key of the request that the step answers *)
AnsweredKey == getPreferenceKey(ret'.event.payload.action, ret'.event.website)

(* the decision follows the preference of the entry *)
Honors(entry, result) ==
    /\ entry.preference.action = "skip" =>
          result.message = <<"User preference: skip automation">>
    /\ entry.preference.action = "record-new" =>
          result.message = <<"User preference: always record new">>
    /\ entry.preference.action = "reuse" => result.action /= "reuse-prompt"

(* the decision is the one of a request with no preference *)
Misses(result) ==
    \/ result.action = "reuse-prompt"
    \/ result.message = <<"No existing automation found for this action">>

\* C16: handleAutomationRequest honors the preference of its key at every minute up
\* to and including the expiry and keeps the entry; once the clock has passed the
\* expiry the read is a miss and removes the entry, and an entry that is gone comes
\* back only by setUserPreference.
C16_LazyExpiry ==
    [][/\ ret'.call = "handleAutomationRequest" /\ AnsweredKey \in DOMAIN userPreferences =>
             IF userPreferences[AnsweredKey].until >= clock
             THEN /\ userPreferences' = userPreferences
                  /\ ~ret'.threw => Honors(userPreferences[AnsweredKey], ret'.result)
             ELSE /\ AnsweredKey \notin DOMAIN userPreferences'
                  /\ ~ret'.threw => Misses(ret'.result)
       /\ \A key \in DOMAIN userPreferences' :
             key \notin DOMAIN userPreferences
                 => ret'.call = "setUserPreference"]_vars

(* a 'skip' preference honored at the very minute it expires, over a stored match *)
C16_Witness ==
    /\ Decided
    /\ UnexpiredAction({"skip"})
    /\ userPreferences[RequestKey].until = clock
    /\ clock > 0
    /\ ret.result.message = <<"User preference: skip automation">>
    /\ Len(RequestMatches) > 0

----------------------------------------------------------------------------
(* Failures of the storage under the decision engine (Spec) *)

SearchFailed == ret.call = "handleAutomationRequest" /\ "failure" \in DOMAIN ret

\* C17: when storage.findMatching fails during handleAutomationRequest, the call
\* rejects with the error findMatching rejected with, after that one search, and
\* returns no decision.
C17_SearchFailurePropagates ==
    SearchFailed =>
        /\ ret.threw
        /\ "error" \in DOMAIN ret /\ ret.error = ret.failure
        /\ ret.searched
        /\ "result" \notin DOMAIN ret

(* the search failed under a 'reuse' preference with a match in store *)
C17_Witness ==
    /\ SearchFailed
    /\ ret.threw
    /\ ret.error = <<"Failed to search automations">>
    /\ UnexpiredAction({"reuse"})
    /\ Len(RequestMatches) > 0

----------------------------------------------------------------------------
(* Properties of backup and restore (SpecTrip) *)

RoundTripDone == ret.call = "exportClearImport"

\* C18: after exportAutomations, clearAllAutomations and importAutomations of the
\* exported list, findMatching({}) returns the same records, with the same field
\* values and in the same order, as before the export.
C18_RoundTrip ==
    RoundTripDone => StorageFindMatching(NoCriteria) = ret.before

(* two records restored, the second saved ranked first, one of them used *)
C18_Witness ==
    /\ RoundTripDone
    /\ Len(ret.before) = 2
    /\ ret.before[1].id = Store[2].id
    /\ \E i \in 1..2 : UseCount(ret.before[i]) > 0 /\ ret.before[i].metadata.lastUsed /= NoDate
    /\ StorageFindMatching(NoCriteria) = ret.before

----------------------------------------------------------------------------
(* Properties of exported lists (SpecHeld) *)

\* C19: the records of a list exportAll returned are deep copies: no later
\* updateUsage, save, deleteById or clear changes a field of a list a caller holds,
\* and a caller changing a record it holds does not change the store.
C19_ExportIsDeepCopy ==
    [][/\ ret'.call \in {"updateUsage", "save", "deleteById", "clear"} =>
             \A slot \in DOMAIN calls :
                 slot \in DOMAIN calls' /\ calls'[slot].list = calls[slot].list
       /\ ret'.call = "mutateReturned" => db' = db /\ automations' = automations]_vars

----------------------------------------------------------------------------
(* Properties of save (SpecStorage) *)

AfterSave(store, automation) ==
    CallOn(store, [op |-> "save", automation |-> automation]).store

RecordsOf(store, id) == SelectSeq(store, LAMBDA a : a.id = id)

OneRecordPerId(store) ==
    \A i, j \in DOMAIN store : store[i].id = store[j].id => i = j

\* C20: save is an idempotent upsert keyed by id: the store never holds two records
\* of one id; saving a record a second time leaves the store as the first save left
\* it; and a save puts its record in the place of the one with that id, or adds it
\* when there is none, and leaves every other record as it was.
C20_SaveIsUpsert ==
    /\ OneRecordPerId(Store)
    /\ \A automation \in StorageRecords :
          LET once == AfterSave(Store, automation)
          IN  /\ AfterSave(once, automation) = once
              /\ OneRecordPerId(once)
              /\ RecordsOf(once, automation.id) = <<automation>>
              /\ \A id \in Ids \ {automation.id} :
                    RecordsOf(once, id) = RecordsOf(Store, id)
              /\ Len(once) = IF automation.id \in StoredIds(Store) THEN Len(Store)
                             ELSE Len(Store) + 1

(* a save completed on a store of two records: saving the first again changes  *)
(* nothing, and another record of its id would replace it                      *)
C20_Witness ==
    /\ ret.call = "save"
    /\ ~ret.threw
    /\ Len(Store) = 2
    /\ AfterSave(Store, Store[1]) = Store
    /\ \E automation \in StorageRecords :
          /\ automation.id = Store[1].id
          /\ automation /= Store[1]
          /\ Len(AfterSave(Store, automation)) = 2

----------------------------------------------------------------------------
(* Properties of the filters of findMatching (SpecStorage) *)

Found == ret.call = "findMatching" /\ ~ret.threw

(* the whole of s matches pattern, '*' standing for any substring *)
RECURSIVE WholeMatch(_, _)
WholeMatch(pattern, s) ==
    IF pattern = <<>> THEN s = <<>>
    ELSE IF Head(pattern) = "*"
         THEN \E k \in 0..Len(s) : WholeMatch(Tail(pattern), SubSeq(s, k + 1, Len(s)))
         ELSE /\ s /= <<>>
              /\ Head(s) = Head(pattern)
              /\ WholeMatch(Tail(pattern), Tail(s))

(* the context-pattern rule as stated: no patterns, or every pattern met *)
ContextRule(automation, context) ==
    automation.matching.contextPatterns.present =>
        \A key \in DOMAIN automation.matching.contextPatterns.patterns :
            LET pattern == automation.matching.contextPatterns.patterns[key]
            IN  IF HasStar(pattern)
                THEN WholeMatch(pattern, ContextString(context, key))
                ELSE key \in DOMAIN context /\ context[key] = pattern

\* C21: when the criteria carry a context, every record findMatching returns has no
\* contextPatterns, or each of its patterns is met by the context: a pattern without
\* '*' by an equal value, a pattern with '*' by a value that matches it as a whole.
C21_ContextRule ==
    Found /\ ret.args.criteria.context.present =>
        \A i \in 1..Len(ret.result) :
            ContextRule(ret.result[i], ret.args.criteria.context.values)

----------------------------------------------------------------------------
(* Properties of recording (Spec).  A templated script is modelled by the       *)
(* sequence of the names of its ${payload.parameters.name} placeholders.       *)

Recorded == ret.call = "saveAutomation" /\ ~ret.threw

FirstIndex(script, name) ==
    CHOOSE k \in DOMAIN script :
        script[k] = name /\ \A m \in 1..(k - 1) : script[m] /= name

(* names lists the names of script once each, in the order they first occur *)
FirstSeen(script, names) ==
    /\ \A i, j \in DOMAIN names : names[i] = names[j] => i = j
    /\ {names[i] : i \in DOMAIN names} = {script[k] : k \in DOMAIN script}
    /\ \A i, j \in DOMAIN names :
          i < j => FirstIndex(script, names[i]) < FirstIndex(script, names[j])

\* C22: the parameters saveAutomation extracts are the placeholder names of the
\* templated script without duplicates, in the order of their first occurrence, and
\* the record it returns and stores has this list as parameters and as
\* matching.exactParameters.
C22_ParametersFirstSeen ==
    Recorded =>
        /\ FirstSeen(ret.event.payload.templatedScript, ret.result.parameters)
        /\ ret.result.matching.exactParameters = ret.result.parameters
        /\ StorageGetById(ret.result.id) = ret.result

(* a script naming query, page, query was recorded *)
C22_Witness ==
    /\ Recorded
    /\ ret.event.payload.templatedScript = <<"query", "page", "query">>
    /\ ret.result.parameters = <<"query", "page">>
    /\ StorageGetById(ret.result.id).matching.exactParameters = <<"query", "page">>

----------------------------------------------------------------------------
(* Properties of the client (SpecClient) *)

Sent == ret.call = "sendMessage"

(* the attempt that got this response failed: HTTP not ok, success = false, or *)
(* no response at all                                                          *)
Failed(response) == ~response.fetched \/ ~response.ok \/ ~response.success

(* the message of a failed attempt *)
FailureMessage(response) ==
    IF ~response.fetched THEN <<response.error>>
    ELSE IF ~response.ok THEN <<"HTTP ", response.status, ": ", response.statusText>>
    ELSE IF response.error = "" THEN <<"Unknown server error">>
    ELSE <<response.error>>

EndsWith(message, tail) ==
    /\ Len(message) >= Len(tail)
    /\ SubSeq(message, Len(message) - Len(tail) + 1, Len(message)) = tail

\* C23: sendMessage makes at most retryAttempts attempts; it resolves with the data
\* of the first attempt that succeeds and makes no attempt after it; it rejects only
\* when retryAttempts attempts were made and all failed, and the message of the error
\* then contains the message of the last failure.
C23_RetryUntilSuccess ==
    Sent =>
        LET made == ret.settled.attempts
        IN  /\ made >= 1 /\ made <= ret.retryAttempts
            /\ \A k \in 1..(made - 1) : Failed(ret.responses[k])
            /\ ~ret.settled.threw =>
                  /\ ~Failed(ret.responses[made])
                  /\ ret.settled.value = <<ret.responses[made].data>>
            /\ ret.settled.threw =>
                  /\ made = ret.retryAttempts
                  /\ Failed(ret.responses[made])
                  /\ EndsWith(ret.settled.value, FailureMessage(ret.responses[made]))

(* two failures, the last an HTTP 500, spent both attempts of the client *)
C23_Witness ==
    /\ Sent
    /\ ret.retryAttempts = 2
    /\ ret.settled.threw
    /\ ret.settled.attempts = 2
    /\ ret.responses[1].error = "Server error"
    /\ ret.settled.value = <<"Operation failed after ", 2, " attempts: ", "HTTP ", 500,
                             ": ", "Internal Server Error">>

(* the one key a search of the database restricts by *)
ByFirstKey(automation, criteria) ==
    IF criteria.action /= "" /\ criteria.website /= ""
    THEN automation.action = criteria.action /\ automation.website = criteria.website
    ELSE IF criteria.action /= "" THEN automation.action = criteria.action
    ELSE IF criteria.website /= "" THEN automation.website = criteria.website
    ELSE IF criteria.eventType /= "" THEN automation.eventType = criteria.eventType
    ELSE TRUE

(* the filters applied to what the index path selects *)
PassesFilters(automation, criteria) ==
    /\ HasAllParams(automation, criteria)
    /\ criteria.minConfidence.present =>
          ~DoubleLess(Confidence(automation), criteria.minConfidence.value)
    /\ criteria.context.present => matchesContext(automation, criteria.context.values)

FoundInDatabase == Found /\ backend = "indexeddb"

\* C24: findMatching of the IndexedDB backend restricts by one key, the first
\* applicable of (action and website), action, website, eventType, else none: every
\* returned record meets that key, and a stored record that meets it and passes the
\* filters is returned whatever the lower-priority keys of the criteria say.
C24_OneIndexPath ==
    FoundInDatabase =>
        /\ \A i \in 1..Len(ret.result) : ByFirstKey(ret.result[i], ret.args.criteria)
        /\ \A i \in 1..Len(db) :
              ByFirstKey(db[i], ret.args.criteria) /\ PassesFilters(db[i], ret.args.criteria)
                  => Includes(ret.result, db[i])

(* a search by action and by event type returned a record of another event type *)
C24_Witness ==
    /\ FoundInDatabase
    /\ ret.args.criteria.action = "search"
    /\ ret.args.criteria.eventType = "automationRequested"
    /\ \E i \in 1..Len(ret.result) : ret.result[i].eventType = "other"

(* the record is one findMatching has to return: selected by the index path and *)
(* passing each filter the criteria carry, the context by the stated rule        *)
Selected(automation, criteria) ==
    /\ ByFirstKey(automation, criteria)
    /\ HasAllParams(automation, criteria)
    /\ criteria.minConfidence.present =>
          ~DoubleLess(Confidence(automation), criteria.minConfidence.value)
    /\ criteria.context.present => ContextRule(automation, criteria.context.values)

\* C25: findMatching returns, once each, exactly the stored records that the index
\* path selects and that have every name of criteria.parameters, a confidence of at
\* least criteria.minConfidence and a matching context; a filter the criteria do not
\* carry excludes nothing.
C25_SoundAndComplete ==
    Found =>
        /\ \A i \in 1..Len(ret.result) :
              Includes(Store, ret.result[i]) /\ Selected(ret.result[i], ret.args.criteria)
        /\ \A i \in 1..Len(Store) :
              Selected(Store[i], ret.args.criteria) => Includes(ret.result, Store[i])
        /\ OneRecordPerId(ret.result)

----------------------------------------------------------------------------
(* Properties of the steps of a request (SpecRequest) *)

(* an unexpired 'skip' or 'record-new' entry is held for the key of event *)
Declines(event) ==
    LET key == getPreferenceKey(event.payload.action, event.website)
    IN  /\ key \in DOMAIN userPreferences
        /\ userPreferences[key].until >= clock
        /\ userPreferences[key].preference.action \in {"skip", "record-new"}

\* C26: a request awaits the search only after the step that read the preference
\* cache, and never when that read found an unexpired 'skip' or 'record-new'; such a
\* request is answered 'record-new' in that step without a storage query; a request
\* is answered after a search only by the one step that ends its await.
C26_PreferenceBeforeSearch ==
    [][/\ \A slot \in DOMAIN calls' \ DOMAIN calls :
             calls'[slot].pc = "search" /\ ~Declines(calls'[slot].event)
       /\ ret'.call = "handleAutomationRequest" /\ ret'.searched =>
             \E slot \in DOMAIN calls \ DOMAIN calls' :
                 calls[slot].pc = "search" /\ calls[slot].event = ret'.event
       /\ ret'.call = "handleAutomationRequest" /\ ~ret'.searched =>
             /\ Declines(ret'.event)
             /\ calls' = calls
             /\ ~ret'.threw /\ ret'.result.action = "record-new"]_vars

(* a 'skip' preference answered a request without a search, a match in store *)
C26_Witness ==
    /\ Decided
    /\ ~ret.searched
    /\ UnexpiredAction({"skip"})
    /\ Len(RequestMatches) > 0
    /\ calls = <<>>

----------------------------------------------------------------------------
(* Properties of the order of steps in executeAutomation (SpecExec) *)

(* after is before with one use counted at this minute *)
Counted(before, after) ==
    /\ after /= Null
    /\ UseCount(after) = UseCount(before) + 1
    /\ after.metadata.lastUsed = clock
    /\ Confidence(after) = MathMin(One, DoubleAdd(Confidence(before), Double(5)))
    /\ [after EXCEPT !.metadata = before.metadata] = before

\* C27: a call of executeAutomation comes to its execution step only by the step
\* that persisted the usage update of a stored id (useCount + 1, confidence nudged,
\* lastUsed set); the execution step is invoked only from there, and never in a call
\* that ends at getById (missing id) or in a failed updateUsage.
C27_UsageBeforeExecution ==
    [][/\ \A slot \in DOMAIN calls \cap DOMAIN calls' :
             calls[slot].pc /= "simulate" /\ calls'[slot].pc = "simulate" =>
                 IF backend = "indexeddb"
                 THEN Counted(calls[slot].read,
                              IdbGetById(db', calls[slot].automationId))
                 ELSE calls[slot].automationId \in StoredIds(automations) =>
                          Counted(MemGetById(automations, calls[slot].automationId),
                                  MemGetById(automations', calls[slot].automationId))
       /\ ret'.call = "executeAutomation" /\ ret'.executed =>
             \E slot \in DOMAIN calls \ DOMAIN calls' :
                 /\ calls[slot].pc = "simulate"
                 /\ calls[slot].automationId = ret'.args.id
       /\ ret'.call = "executeAutomation" /\ ret'.step /= "simulate" =>
             ~ret'.executed /\ ~ret'.result.success]_vars

(* an execution that followed its usage update: the record shows the use *)
C27_Witness ==
    /\ Executed
    /\ ret.executed
    /\ ret.wrote
    /\ StorageGetById(ret.args.id) /= Null
    /\ UseCount(StorageGetById(ret.args.id)) > 0
    /\ StorageGetById(ret.args.id).metadata.lastUsed = clock

----------------------------------------------------------------------------
(* Properties of preferences set again (SpecPrefs) *)

PreferenceSet == ret.call = "setUserPreference"

(* the expiry setUserPreference computes for preference at this minute *)
ExpiryNow(preference) ==
    IF ~preference.doNotAskFor.present THEN clock + 24 * 60
    ELSE IF preference.doNotAskFor.type = "duration"
    THEN clock + preference.doNotAskFor.value
    ELSE clock + 60 * preference.doNotAskFor.value

\* C28: after setUserPreference the entry of the key holds the preference of this
\* call and the expiry computed by this call, whatever entry it replaced, also when
\* that expiry is earlier; and a request is decided by the entry held now.
C28_LaterPreferenceReplaces ==
    /\ PreferenceSet =>
          /\ ret.args.key \in DOMAIN userPreferences
          /\ userPreferences[ret.args.key] =
                [until |-> ExpiryNow(ret.args.preference),
                 preference |-> ret.args.preference]
    /\ Decided /\ Unexpired => Honors(userPreferences[RequestKey], ret.result)

(* 'reuse' for a minute set over a 'skip' that had a day to run *)
C28_Witness ==
    /\ PreferenceSet
    /\ ret.replaced /= <<>>
    /\ ret.replaced[1].preference.action = "skip"
    /\ ret.args.preference.action = "reuse"
    /\ userPreferences[ret.args.key].preference.action = "reuse"
    /\ userPreferences[ret.args.key].until < ret.replaced[1].until

\* C29: a preference set for an (action, website) pair changes the outcome only of
\* requests with that action and that website: where every preference is one of
\* another pair, each request is decided as one with no preference, and it removes
\* no entry of the cache, expired or not.
C29_OtherPairsUnaffected ==
    [][ret'.call = "handleAutomationRequest" =>
          /\ userPreferences' = userPreferences
          /\ ~ret'.threw => Misses(ret'.result)]_vars

(* the calls that only read *)
Reads == {"findMatching", "getById", "exportAll", "handleAutomationRequest"}

\* C30: findMatching, getById, exportAll, getAllAutomations, searchAutomations and
\* handleAutomationRequest leave every stored record as it was and add or remove
\* none; of the preference cache only handleAutomationRequest changes anything, and
\* only by removing the entry of its own key when the clock has passed its expiry.
C30_ReadsLeaveStore ==
    [][ret'.call \in Reads =>
          /\ db' = db
          /\ automations' = automations
          /\ \/ userPreferences' = userPreferences
             \/ /\ ret'.call = "handleAutomationRequest"
                /\ AnsweredKey \in DOMAIN userPreferences
                /\ userPreferences[AnsweredKey].until < clock
                /\ DOMAIN userPreferences' = DOMAIN userPreferences \ {AnsweredKey}
                /\ \A key \in DOMAIN userPreferences' :
                      userPreferences'[key] = userPreferences[key]]_vars

(* a record used once returned by getById, the stored record still showing one use *)
C30_Witness ==
    /\ ret.call = "getById" /\ ~ret.threw
    /\ ret.result /= Null
    /\ ret.result.id = 1
    /\ ret.result.metadata.useCount = 1
    /\ StorageGetById(ret.result.id) = ret.result

----------------------------------------------------------------------------
(* Properties of the ranking across storage orders (SpecStorage) *)

(* the stores holding the records of the store in each order the backend can   *)
(* hold them: a Map in every insertion order, the database in key order only   *)
StorageOrders ==
    IF backend = "indexeddb" THEN {db}
    ELSE {[i \in 1..Len(automations) |-> automations[order[i]]] :
              order \in Permutations(1..Len(automations))}

FindMatchingOn(store, criteria) ==
    IF backend = "indexeddb" THEN IdbFindMatching(store, criteria)
    ELSE MemFindMatching(store, criteria)

\* C31: what findMatching returns depends only on the set of stored records: a
\* store holding the same records in another order returns the same list for the
\* same criteria, top-ranked match included.
C31_OrderIndependent ==
    ret.call = "findMatching" /\ ~ret.threw =>
        \A store \in StorageOrders :
            FindMatchingOn(store, ret.args.criteria) = ret.result

----------------------------------------------------------------------------
(* Properties of deletion beside calls in flight (SpecExec) *)

(* the calls that supply a record *)
Supplies == {"save", "saveAutomation", "importAutomations"}

\* C32: an id that getById reports absent, as after deleteById has completed, is
\* stored again only by a step of save, saveAutomation or importAutomations: no
\* step of an updateUsage or executeAutomation that began before the delete puts
\* the record back.
C32_DeletedStaysDeleted ==
    [][\A id \in Ids :
          StorageGetById(id) = Null /\ id \in StoredIds(Store)'
              => ret'.call \in Supplies]_vars

\* C33: a call of executeAutomation goes on to its execution step, and so to
\* success=true, only by a step that incremented the useCount of its id in the
\* store: the record is stored before the step and after it, one use higher.
C33_SuccessCountsUse ==
    [][\A slot \in DOMAIN calls \cap DOMAIN calls' :
          calls[slot].pc /= "simulate" /\ calls'[slot].pc = "simulate" =>
              IF backend = "indexeddb"
              THEN /\ IdbGetById(db, calls[slot].automationId) /= Null
                   /\ UseCount(IdbGetById(db', calls[slot].automationId))
                          = UseCount(IdbGetById(db, calls[slot].automationId)) + 1
              ELSE /\ MemGetById(automations, calls[slot].automationId) /= Null
                   /\ UseCount(MemGetById(automations', calls[slot].automationId))
                          = UseCount(MemGetById(automations, calls[slot].automationId)) + 1]_vars

----------------------------------------------------------------------------
(* Properties of the context restriction of results (SpecStorage) *)

\* C34: every record findMatching returns that has contextPatterns was asked for
\* with a context, and that context passes each of its patterns; criteria without
\* a context are never answered with a record restricted by contextPatterns.
C34_PatternsSatisfied ==
    Found =>
        \A i \in 1..Len(ret.result) :
            ret.result[i].matching.contextPatterns.present =>
                /\ ret.args.criteria.context.present
                /\ matchesContext(ret.result[i], ret.args.criteria.context.values)

----------------------------------------------------------------------------
(* Properties of recorded automations offered again (SpecReuse): every stored  *)
(* record was built by saveAutomation and not deleted since                    *)

(* the record has the action and the website of the request, and every         *)
(* parameter name the request supplies                                         *)
Reusable(automation) ==
    /\ automation.action = ret.event.payload.action
    /\ automation.website = ret.event.website
    /\ \A i \in 1..Len(ret.event.payload.parameters) :
          Includes(automation.parameters, ret.event.payload.parameters[i])

(* the context of the request, if it carries one, passes the record's patterns *)
ContextPasses(automation) ==
    ret.event.payload.context.present =>
        matchesContext(automation, ret.event.payload.context.values)

Offered ==
    /\ ret.result.action = "reuse-prompt"
    /\ \E i \in 1..Len(Store) : Store[i] = ret.result.automation

\* C35 as stated: while a record built by saveAutomation is stored, a request with
\* its action and website, parameter names among its placeholders and no active
\* preference is answered 'reuse-prompt' with a stored automation, whatever the
\* context of the request.
C35_SavedIsOfferedAnyContext ==
    Decided /\ ~Unexpired /\ (\E i \in 1..Len(Store) : Reusable(Store[i])) => Offered

\* C35: saveAutomation stores the record it returns with confidence 0.8 and
\* useCount 0, and while such a record is stored, a request with its action and
\* website, parameter names among its placeholders, a context (if it carries one)
\* that passes the record's contextPatterns, and no active preference is answered
\* 'reuse-prompt' with a stored automation.
C35_SavedIsOffered ==
    /\ ret.call = "saveAutomation" /\ ~ret.threw =>
          /\ StorageGetById(ret.result.id) = ret.result
          /\ Confidence(ret.result) = Double(InitialConfidence)
          /\ UseCount(ret.result) = 0
    /\ Decided /\ ~Unexpired
          /\ (\E i \in 1..Len(Store) : Reusable(Store[i]) /\ ContextPasses(Store[i]))
       => Offered

(* a recording saved with a context pattern, offered to a request whose context *)
(* passes it                                                                    *)
C35_Witness ==
    /\ Decided /\ ~Unexpired
    /\ ret.event.payload.context.present
    /\ ret.result.action = "reuse-prompt"
    /\ ret.result.automation.matching.contextPatterns.present
    /\ Reusable(ret.result.automation)

----------------------------------------------------------------------------
(* Properties of the reset (SpecClear) *)

----------------------------------------------------------------------------
(* Properties of the extension's connection (SpecExtension) *)

\* C37: once disconnect() was called, a new WebSocket is constructed only by a
\* connect() of the caller; reconnectAttempts never exceeds maxReconnectAttempts,
\* a reconnection is attempted only after the count was raised, and the count goes
\* down only by an open, which sets it to 0.
C37_NoSocketAfterDisconnect ==
    [][/\ extension.disconnected /\ Len(extension'.sockets) > Len(extension.sockets) =>
             ret' = [call |-> "connect", by |-> "caller"]
       /\ extension'.reconnectAttempts <= MaxReconnectAttempts(extension.config)
       /\ extension'.timers > extension.timers =>
             extension'.reconnectAttempts = extension.reconnectAttempts + 1
       /\ extension'.reconnectAttempts < extension.reconnectAttempts =>
             ret'.call = "onopen" /\ extension'.reconnectAttempts = 0]_vars

====
